---------------------------- MODULE Spec2Model ----------------------------
(***************************************************************************)
(* Ponder: the wordlist generation pipeline (transform, scatter-sort,      *)
(* aggregate), the updater goroutine that runs it under the shared mutex,  *)
(* and the upload / import handlers that append to the source wordlist.    *)
(*                                                                         *)
(* A Go string is a sequence of bytes.  It is modelled by the TLA+ string  *)
(* holding one character per byte (the Latin-1 reading of the byte), so    *)
(* the two bytes C3 A9 of a UTF-8 e-acute are the two characters "Ã©".     *)
(***************************************************************************)
EXTENDS Integers, Sequences, FiniteSets, Bags, TLC

(***************************************************************************)
(* Bytes                                                                   *)
(***************************************************************************)

\* Bytes 32..95 and 97..126 in byte order (byte 96 cannot be written in a
\* TLA+ string and is not part of the modelled alphabet).
AsciiLow == " !\"#$%&'()*+,-./0123456789:;<=>?@ABCDEFGHIJKLMNOPQRSTUVWXYZ[\\]^_"

AsciiHigh == "abcdefghijklmnopqrstuvwxyz{|}~"

ByteTable ==
    [c \in {"\t", "\n", "\f", "\r", "©", "Ã"} |->
        CASE c = "\t" -> 9 [] c = "\n" -> 10 [] c = "\f" -> 12
          [] c = "\r" -> 13 [] c = "©" -> 169 [] c = "Ã" -> 195]
    @@ [c \in {SubSeq(AsciiLow, i, i) : i \in 1..Len(AsciiLow)} |->
          31 + (CHOOSE i \in 1..Len(AsciiLow) : SubSeq(AsciiLow, i, i) = c)]
    @@ [c \in {SubSeq(AsciiHigh, i, i) : i \in 1..Len(AsciiHigh)} |->
          96 + (CHOOSE i \in 1..Len(AsciiHigh) : SubSeq(AsciiHigh, i, i) = c)]

\* s[i-1] of Go, as a one-byte string, and its value.
At(s, i) == SubSeq(s, i, i)

Ord(c) == ByteTable[c]

\* The runes of `for _, char := range s`: a byte below 0x80 is itself, a
\* two-byte sequence (lead C2..DF, continuation 80..BF) is its code point,
\* any other byte is utf8.RuneError (U+FFFD), one byte wide.
RuneError == 65533

RECURSIVE RunesFrom(_, _)
RunesFrom(s, i) ==
    IF i > Len(s) THEN << >>
    ELSE LET b == Ord(At(s, i)) IN
         IF b < 128 THEN <<b>> \o RunesFrom(s, i + 1)
         ELSE IF /\ b \in 194..223
                 /\ i < Len(s)
                 /\ Ord(At(s, i + 1)) \in 128..191
              THEN <<(b - 192) * 64 + (Ord(At(s, i + 1)) - 128)>>
                     \o RunesFrom(s, i + 2)
              ELSE <<RuneError>> \o RunesFrom(s, i + 1)

Runes(s) == RunesFrom(s, 1)

\* unicode.IsLetter on the code points the modelled bytes can decode to
\* (ASCII and Latin-1).
IsLetter(r) ==
    \/ r \in 65..90
    \/ r \in 97..122
    \/ r \in {170, 181, 186}
    \/ r \in 192..214
    \/ r \in 216..246
    \/ r \in 248..255

IsDigitByte(c) == Ord(c) \in 48..57

\* unicode.IsSpace on the modelled bytes ('\t', '\n', '\v', '\f', '\r', ' ').
IsSpaceByte(c) == Ord(c) \in {9, 10, 11, 12, 13, 32}

(***************************************************************************)
(* package strings, package bufio                                          *)
(***************************************************************************)

\* strings.Join(parts, sep)
RECURSIVE Join(_, _)
Join(parts, sep) ==
    IF parts = << >> THEN ""
    ELSE IF Len(parts) = 1 THEN parts[1]
    ELSE parts[1] \o sep \o Join(Tail(parts), sep)

\* Index of the first byte of s at or after i that satisfies the byte set,
\* Len(s)+1 when there is none.
RECURSIVE NextIn(_, _, _)
NextIn(s, i, set) ==
    IF i > Len(s) THEN Len(s) + 1
    ELSE IF At(s, i) \in set THEN i
    ELSE NextIn(s, i + 1, set)

\* strings.Split(s, "\n"): always at least one part.
RECURSIVE SplitFrom(_, _)
SplitFrom(s, i) ==
    LET j == NextIn(s, i, {"\n"}) IN
    IF j > Len(s) THEN <<SubSeq(s, i, Len(s))>>
    ELSE <<SubSeq(s, i, j - 1)>> \o SplitFrom(s, j + 1)

Split(s) == SplitFrom(s, 1)

\* bufio.Scanner with the default bufio.ScanLines: lines end at "\n", one
\* trailing "\r" is dropped, and a last line without "\n" is returned
\* only when it is not empty.  Lines are below bufio.MaxScanTokenSize.
DropCR(line) ==
    IF Len(line) > 0 /\ At(line, Len(line)) = "\r"
    THEN SubSeq(line, 1, Len(line) - 1)
    ELSE line

RECURSIVE ScanFrom(_, _)
ScanFrom(s, i) ==
    IF i > Len(s) THEN << >>
    ELSE LET j == NextIn(s, i, {"\n"}) IN
         <<DropCR(SubSeq(s, i, j - 1))>> \o ScanFrom(s, j + 1)

ScanLines(s) == ScanFrom(s, 1)

\* strings.Fields(s): the maximal runs of non-space bytes.
RECURSIVE FieldsFrom(_, _)
FieldsFrom(s, i) ==
    IF i > Len(s) THEN << >>
    ELSE IF IsSpaceByte(At(s, i)) THEN FieldsFrom(s, i + 1)
    ELSE LET j == NextIn(s, i, {"\t", "\n", "\f", "\r", " "}) IN
         <<SubSeq(s, i, j - 1)>> \o FieldsFrom(s, j)

Fields(s) == FieldsFrom(s, 1)

\* strings.ReplaceAll(s, c, "") for every one-byte string c of the set.
RECURSIVE RemoveBytes(_, _)
RemoveBytes(s, set) ==
    IF s = "" THEN ""
    ELSE (IF Head(s) \in set THEN "" ELSE Head(s)) \o RemoveBytes(Tail(s), set)

\* strings.TrimLeftFunc / strings.TrimRightFunc with the predicate
\* r >= '0' && r <= '9'.
RECURSIVE TrimLeftDigits(_)
TrimLeftDigits(s) ==
    IF s # "" /\ IsDigitByte(Head(s)) THEN TrimLeftDigits(Tail(s)) ELSE s

\* Mutant of TrimRightDigits: one trailing digit is removed.
TrimRightOneDigit(s) ==
    IF s # "" /\ IsDigitByte(At(s, Len(s))) THEN SubSeq(s, 1, Len(s) - 1) ELSE s

RECURSIVE TrimRightDigits(_)
TrimRightDigits(s) ==
    IF s # "" /\ IsDigitByte(At(s, Len(s)))
    THEN TrimRightDigits(SubSeq(s, 1, Len(s) - 1))
    ELSE s

\* strings.TrimSpace(s)
RECURSIVE TrimLeftSpace(_)
TrimLeftSpace(s) ==
    IF s # "" /\ IsSpaceByte(Head(s)) THEN TrimLeftSpace(Tail(s)) ELSE s

RECURSIVE TrimRightSpace(_)
TrimRightSpace(s) ==
    IF s # "" /\ IsSpaceByte(At(s, Len(s)))
    THEN TrimRightSpace(SubSeq(s, 1, Len(s) - 1))
    ELSE s

TrimSpace(s) == TrimRightSpace(TrimLeftSpace(s))

\* strings.Contains(s, sub)
Contains(s, sub) ==
    \E i \in 1..(Len(s) - Len(sub) + 1) : SubSeq(s, i, i + Len(sub) - 1) = sub

\* strings.TrimSuffix(s, suffix)
TrimSuffix(s, suffix) ==
    IF /\ Len(suffix) <= Len(s)
       /\ SubSeq(s, Len(s) - Len(suffix) + 1, Len(s)) = suffix
    THEN SubSeq(s, 1, Len(s) - Len(suffix))
    ELSE s

\* Upper- and lower-casing of one ASCII byte.
UpperByte(c) ==
    IF Ord(c) \in 97..122 THEN At(AsciiLow, Ord(c) - 32 - 31) ELSE c

LowerByte(c) ==
    IF Ord(c) \in 65..90 THEN At(AsciiHigh, Ord(c) + 32 - 96) ELSE c

\* strings.ToLower(s) on ASCII bytes (its callers pass ASCII only).
RECURSIVE ToLower(_)
ToLower(s) == IF s = "" THEN "" ELSE LowerByte(Head(s)) \o ToLower(Tail(s))

\* The decimal digits of fmt.Sprintf("%d", n), n >= 0.
RECURSIVE Itoa(_)
Itoa(n) ==
    IF n < 10 THEN At("0123456789", n + 1)
    ELSE Itoa(n \div 10) \o At("0123456789", (n % 10) + 1)

\* s < t in the byte order of sort.Strings.
RECURSIVE StrLess(_, _)
StrLess(s, t) ==
    IF t = "" THEN FALSE
    ELSE IF s = "" THEN TRUE
    ELSE IF Head(s) = Head(t) THEN StrLess(Tail(s), Tail(t))
    ELSE Ord(Head(s)) < Ord(Head(t))

(***************************************************************************)
(* Quality filter predicates (package utils)                               *)
(***************************************************************************)

\* The loop of IsAllDigitsOrSpecialChars: does s hold a letter?
HasLetter(s) == \E i \in 1..Len(Runes(s)) : IsLetter(Runes(s)[i])

IsAllDigitsOrSpecialChars(s) == ~HasLetter(s)

\* Every byte of a multi-byte or invalid sequence decodes to a rune above
\* unicode.MaxASCII.
ContainsOnlyASCII(s) ==
    LET rs == Runes(s) IN \A i \in 1..Len(rs) : rs[i] <= 127

IsVowel(r) == r \in {97, 101, 105, 111, 117, 65, 69, 73, 79, 85}

\* Mutant of isWordLike: the characters that are no letters are not counted.
isWordLikeAnyCount(s) == \E i \in 1..Len(Runes(s)) : IsVowel(Runes(s)[i])

isWordLike(s) ==
    LET rs == Runes(s)
        hasVowel == \E i \in 1..Len(rs) : IsVowel(rs[i])
        digitOrSpecialCount ==
            Cardinality({i \in 1..Len(rs) : ~IsVowel(rs[i]) /\ ~IsLetter(rs[i])})
    IN hasVowel /\ digitOrSpecialCount <= 1

\* Width of the 5-byte window of LikelyContainsWords.
WindowLen == 5

LikelyContainsWords(s) ==
    IF Len(s) < WindowLen THEN FALSE
    ELSE \E i \in 1..(Len(s) - (WindowLen - 1)) :
            isWordLike(SubSeq(s, i, i + WindowLen - 1))

\* The alternatives of qualityRegex.  The literal is a Go raw string, so
\* each "\\" of it is the regular expression of one backslash byte, and
\* the "." after it matches any one rune.
DenySubstrings ==
    {"xiaonei", "zomato", "fbobh", "fccdbbcdaa", "yahoo", "linkedin", "gmail",
     "yandex", "hotmail", "http:\\/\\/", "https:\\/\\/",
     "<tr>", "<div>", "<a href", "<p>", "<img src"}

\* One rune other than "\n" starts at byte i of s and ends at byte j: what
\* "." matches.
OneRune(s, i, j) ==
    /\ i <= j
    /\ j <= Len(s)
    /\ Len(Runes(SubSeq(s, i, j))) = 1
    /\ SubSeq(s, i, j) # "\n"

\* \\@.*\\.net
MatchesAtNet(s) ==
    \E i \in 1..Len(s) : \E j \in (i + 2)..Len(s) : \E w \in 1..2 :
        /\ SubSeq(s, i, i + 1) = "\\@"
        /\ ~Contains(SubSeq(s, i + 2, j - 1), "\n")
        /\ At(s, j) = "\\"
        /\ OneRune(s, j + 1, j + w)
        /\ SubSeq(s, j + w + 1, j + w + 3) = "net"

IsAlnumByte(c) == Ord(c) \in (48..57) \cup (65..90) \cup (97..122)

\* [A-Za-z0-9._%+-]+@[A-Za-z0-9.-]+\\.[A-Za-z]{2,6}
MatchesEmail(s) ==
    \E a \in 2..Len(s) : \E q \in (a + 2)..Len(s) : \E w \in 1..2 :
        /\ At(s, a) = "@"
        /\ IsAlnumByte(At(s, a - 1)) \/ At(s, a - 1) \in {".", "_", "%", "+", "-"}
        /\ \A k \in (a + 1)..(q - 1) :
              IsAlnumByte(At(s, k)) \/ At(s, k) \in {".", "-"}
        /\ At(s, q) = "\\"
        /\ OneRune(s, q + 1, q + w)
        /\ q + w + 2 <= Len(s)
        /\ \A k \in (q + w + 1)..(q + w + 2) : IsLetter(Ord(At(s, k))) /\ Ord(At(s, k)) < 128

\* Bound of ^.{0,5}$
DenyMaxLen == 5

MatchesQualityRegex(s) ==
    \/ \E d \in DenySubstrings : Contains(s, d)
    \/ MatchesAtNet(s)
    \/ MatchesEmail(s)
    \/ s # "" /\ \A i \in 1..Len(s) : IsDigitByte(At(s, i))
    \/ Len(Runes(s)) <= DenyMaxLen /\ ~Contains(s, "\n")

IsQualityCandidateCheck(s) == ~MatchesQualityRegex(s)

(***************************************************************************)
(* Transform stage (package models, package generate)                      *)
(***************************************************************************)

\* The n-grams of i words of GenerateNGrams, from word j on.
NGramAt(words, j, i) ==
    RemoveBytes(TrimSpace(Join(SubSeq(words, j, j + i - 1), " ")),
                {".", ",", ";"})

RECURSIVE NGramsOfSize(_, _, _)
NGramsOfSize(words, i, j) ==
    IF j > Len(words) - i + 1 THEN << >>
    ELSE <<NGramAt(words, j, i)>> \o NGramsOfSize(words, i, j + 1)

RECURSIVE NGramsFromSize(_, _, _)
NGramsFromSize(words, i, wordRangeEnd) ==
    IF i > wordRangeEnd THEN << >>
    ELSE NGramsOfSize(words, i, 1) \o NGramsFromSize(words, i + 1, wordRangeEnd)

GenerateNGrams(text, wordRangeStart, wordRangeEnd) ==
    NGramsFromSize(Fields(text), wordRangeStart, wordRangeEnd)

RECURSIVE FlatMapNGrams(_, _, _)
FlatMapNGrams(lines, wordRangeStart, wordRangeEnd) ==
    IF lines = << >> THEN << >>
    ELSE GenerateNGrams(Head(lines), wordRangeStart, wordRangeEnd)
           \o FlatMapNGrams(Tail(lines), wordRangeStart, wordRangeEnd)

GenerateNGramSliceBytes(input, wordRangeStart, wordRangeEnd) ==
    Join(FlatMapNGrams(Split(input), wordRangeStart, wordRangeEnd), "\n")

\* RemoveControlChars keeps the runes 32..126; a byte of a multi-byte or
\* invalid sequence is part of a rune above 126 and is dropped.
RECURSIVE RemoveControlChars(_)
RemoveControlChars(s) ==
    IF s = "" THEN ""
    ELSE (IF Ord(Head(s)) \in 32..126 THEN Head(s) ELSE "")
           \o RemoveControlChars(Tail(s))

\* cases.Title(language.Und, cases.NoLower) on printable ASCII: the first
\* cased letter after a word break is upper-cased and nothing is lowered.
\* Letters, digits, "_" and the mid-word marks do not break a word; two
\* mid-word marks in a row do.
IsCasedByte(c) == Ord(c) \in (65..90) \cup (97..122)

IsMidByte(c) == c \in {"'", ".", ":"}

IsBreakByte(c) ==
    ~(IsAlnumByte(c) \/ c = "_" \/ c \in {"'", ".", ":", ",", ";"})

RECURSIVE TitleFrom(_, _, _)
TitleFrom(s, i, isMidWord) ==
    IF i > Len(s) THEN ""
    ELSE LET c == At(s, i)
             mid == IF IsCasedByte(c) THEN TRUE
                    ELSE IF IsBreakByte(c) THEN FALSE
                    ELSE isMidWord
             next == IF /\ IsMidByte(c)
                        /\ i < Len(s)
                        /\ IsMidByte(At(s, i + 1))
                     THEN FALSE ELSE mid
         IN (IF IsCasedByte(c) /\ ~isMidWord THEN UpperByte(c) ELSE c)
              \o TitleFrom(s, i + 1, next)

\* Mutant of Title: only a space ends a word.
RECURSIVE TitleAtSpacesFrom(_, _, _)
TitleAtSpacesFrom(s, i, isMidWord) ==
    IF i > Len(s) THEN ""
    ELSE LET c == At(s, i) IN
         (IF IsCasedByte(c) /\ ~isMidWord THEN UpperByte(c) ELSE c)
           \o TitleAtSpacesFrom(s, i + 1,
                                IF IsCasedByte(c) THEN TRUE
                                ELSE IF c = " " THEN FALSE ELSE isMidWord)

TitleAtSpaces(s) == TitleAtSpacesFrom(s, 1, FALSE)

Title(s) == TitleFrom(s, 1, FALSE)

\* Mutant of PrepareLine: the words of a phrase are joined in lower case.
PrepareLineNoTitle(line) ==
    RemoveBytes(ToLower(RemoveControlChars(
                   RemoveBytes(line, {"\n", "\t", "\r", "\f"}))), {" "})

\* One line of PrepareStringForTransformations.
PrepareLine(line) ==
    LET clean == ToLower(RemoveControlChars(
                    RemoveBytes(line, {"\n", "\t", "\r", "\f"})))
    IN IF Contains(clean, " ")
       THEN RemoveBytes(Title(clean), {" "})
       ELSE RemoveBytes(clean, {" "})

RECURSIVE MapPrepare(_)
MapPrepare(lines) ==
    IF lines = << >> THEN << >>
    ELSE <<PrepareLine(Head(lines))>> \o MapPrepare(Tail(lines))

PrepareStringForTransformations(data) == MapPrepare(ScanLines(data))

\* The test of filterLines on one line.
KeptByFilterLines(line) ==
    /\ ~IsAllDigitsOrSpecialChars(line)
    /\ ContainsOnlyASCII(line)
    /\ LikelyContainsWords(line)

RECURSIVE FilterLineSeq(_)
FilterLineSeq(lines) ==
    IF lines = << >> THEN ""
    ELSE (IF KeptByFilterLines(Head(lines)) THEN Head(lines) \o "\n" ELSE "")
           \o FilterLineSeq(Tail(lines))

filterLines(data) == FilterLineSeq(ScanLines(data))

RECURSIVE TrailingSeq(_)
TrailingSeq(lines) ==
    IF lines = << >> THEN ""
    ELSE TrimRightDigits(Head(lines)) \o "\n" \o TrailingSeq(Tail(lines))

removeTrailingDigits(data) == TrailingSeq(ScanLines(data))

RECURSIVE LeadingSeq(_)
LeadingSeq(lines) ==
    IF lines = << >> THEN ""
    ELSE TrimLeftDigits(Head(lines)) \o "\n" \o LeadingSeq(Tail(lines))

removeLeadingDigits(data) == LeadingSeq(ScanLines(data))

\* Mutant of InLengthRange: the upper bound is not tested.
InLengthRangeNoMax(line, minLength, maxLength) == Len(line) >= minLength

InLengthRange(line, minLength, maxLength) ==
    Len(line) >= minLength /\ Len(line) <= maxLength

EnforceLengthRange(input, minLength, maxLength) ==
    Join(SelectSeq(Split(input),
                   LAMBDA line : InLengthRange(line, minLength, maxLength)),
         "\n")

\* The arguments CreateWizardWordlist passes.
NGramStart == 1

NGramEnd == 5

MinLength == 4

MaxLength == 32

\* Mutant of TransformChunk: the second filterLines is left out.
TransformChunkNoRecheck(chunk) ==
    LET nGrams == GenerateNGramSliceBytes(chunk, NGramStart, NGramEnd)
        prepared == Join(PrepareStringForTransformations(nGrams), "\n")
        filtered == filterLines(prepared)
        trimmed == removeLeadingDigits(removeTrailingDigits(filtered))
        bounded == EnforceLengthRange(trimmed, MinLength, MaxLength)
    IN IF bounded = "" THEN "" ELSE bounded \o "\n"

\* The transform of one chunk with the n-gram range as a parameter.
TransformWith(chunk, wordRangeStart, wordRangeEnd) ==
    LET nGrams == GenerateNGramSliceBytes(chunk, wordRangeStart, wordRangeEnd)
        prepared == Join(PrepareStringForTransformations(nGrams), "\n")
        filtered == filterLines(prepared)
        trimmed == removeLeadingDigits(removeTrailingDigits(filtered))
        bounded == EnforceLengthRange(trimmed, MinLength, MaxLength)
    IN filterLines(bounded)

\* The body of the read loop of CreateWizardWordlist from buffer[:n] to
\* nGramChunk.
TransformChunk(chunk) == TransformWith(chunk, NGramStart, NGramEnd)

(***************************************************************************)
(* State                                                                   *)
(***************************************************************************)

VARIABLES
    source,         \* bytes of models.SourceWordlist
    target,         \* bytes of models.WizardWordlist on disk
    tempDir,        \* does /data/temp_chunks exist
    chunks,         \* its files: name -> bytes
    cfg,            \* the tunables of this build (sizes scaled down)
    pc,             \* where the updater goroutine / the generation run is
    err,            \* the error CreateWizardWordlist returns ("nil" if none)
    srcOff,         \* read offset of sourceFile
    tgtOff,         \* write offset of targetFile (opened without O_TRUNC)
    scanRest,       \* lines the scanner of the scatter stage has yet to read
    scanErr,        \* the sticky read error of that scanner
    lines,          \* the in-memory batch of processFileChunksToTempFiles
    chunkCounter,
    dirList,        \* files of os.ReadDir(tempDir), in name order
    handles,        \* chunk files opened by mergeSortedChunks and not closed
    mergeIdx,       \* index in dirList of the scanner being read
    mergeRest,      \* lines that scanner has yet to read
    entries,        \* the frequency table: key -> count
    wbuf,           \* bytes buffered in the bufio.Writer of the output file
    written,        \* history: bytes the transform stage wrote in this run
    consumed,       \* history: lines the aggregate stage read
    batches,        \* history: the flush batches, each a sequence of pairs
    targetBefore,   \* history: the output file as the run found it
    intermediate,   \* history: the file the transform stage left to be sorted
    Mu,             \* api.Mu: "free" or the goroutine holding it
    LastUploaded,
    LastUpdated,
    clock,          \* the last value time.Now() returned
    handlers,       \* the request goroutines of UploadHandler / ImportHandler;
                    \* field before is history: the source file's content
                    \* when the handler took the lock
    importDir,      \* files of models.ImportDirectory still to import
    unprocessed,    \* history: bytes were appended by a handler that answered
                    \* 200, and no run has started since
    fnCall,         \* a function under test and its arguments
    fnResult        \* << >> before the call, <<value returned>> after

fileVars == <<source, target, tempDir, chunks>>

genVars == <<srcOff, tgtOff, scanRest, scanErr, lines, chunkCounter, dirList,
             handles, mergeIdx, mergeRest, entries, wbuf>>

histVars == <<written, consumed, batches, targetBefore, intermediate>>

apiVars == <<Mu, LastUploaded, LastUpdated, clock, handlers, importDir>>

serverVars == <<fileVars, cfg, pc, err, genVars, histVars, apiVars, unprocessed>>

fnVars == <<fnCall, fnResult>>

vars == <<serverVars, fnVars>>

\* No function is under test.
FnIdle ==
    /\ fnCall = [fn |-> "none", text |-> "", bytes |-> << >>, a |-> 0, b |-> 0,
                 sub |-> ""]
    /\ fnResult = << >>

\* A map with no key.
EmptyMap == [k \in {} |-> 0]

Range(f) == {f[x] : x \in DOMAIN f}

\* The multiset of the elements of a sequence.
BagOfSeq(seq) ==
    [x \in Range(seq) |-> Cardinality({i \in DOMAIN seq : seq[i] = x})]

RECURSIVE SumCounts(_)
SumCounts(pairs) ==
    IF pairs = << >> THEN 0 ELSE Head(pairs).count + SumCounts(Tail(pairs))

RECURSIVE Flatten(_)
Flatten(seqs) ==
    IF seqs = << >> THEN << >> ELSE Head(seqs) \o Flatten(Tail(seqs))

(***************************************************************************)
(* Files                                                                   *)
(***************************************************************************)

\* file.Write(data) at offset off of a file opened without O_TRUNC and
\* without O_APPEND: the bytes at off .. off+len(data) are overwritten and
\* every byte after them stays.
WriteAt(content, off, data) ==
    SubSeq(content, 1, off) \o data
        \o SubSeq(content, off + Len(data) + 1, Len(content))

\* bufio.Writer.WriteString(s) on a writer of the given size holding buf,
\* over a file holding content: full buffers go to the file, the rest
\* (at least one byte when anything was flushed) stays buffered.
BufWrite(content, buf, s, size) ==
    LET total == buf \o s
        k == IF total = "" THEN 0 ELSE (Len(total) - 1) \div size
    IN [file |-> content \o SubSeq(total, 1, k * size),
        buf |-> SubSeq(total, k * size + 1, Len(total))]

\* sort.Strings
RECURSIVE InsertSorted(_, _)
InsertSorted(x, sorted) ==
    IF sorted = << >> THEN <<x>>
    ELSE IF StrLess(Head(sorted), x)
         THEN <<Head(sorted)>> \o InsertSorted(x, Tail(sorted))
         ELSE <<x>> \o sorted

RECURSIVE SortStrings(_)
SortStrings(ls) ==
    IF ls = << >> THEN << >>
    ELSE InsertSorted(Head(ls), SortStrings(Tail(ls)))

\* os.ReadDir returns the entries sorted by filename.
RECURSIVE SortedNames(_)
SortedNames(names) ==
    IF names = {} THEN << >>
    ELSE LET m == CHOOSE x \in names : \A y \in names : x = y \/ StrLess(x, y)
         IN <<m>> \o SortedNames(names \ {m})

ReadDir(dir) == SortedNames(DOMAIN dir)

ChunkName(counter) == "chunk_" \o Itoa(counter) \o ".txt"

RECURSIVE WithNewlines(_)
WithNewlines(ls) ==
    IF ls = << >> THEN "" ELSE Head(ls) \o "\n" \o WithNewlines(Tail(ls))

(***************************************************************************)
(* CreateWizardWordlist: the transform stage                               *)
(***************************************************************************)

\* Size of the bufio.Writer of the output file and of the chunk files
\* (bufio's default, scaled down).
WriterSize == 8

\* os.Open(sourcePATH); the history of the run starts here.
OpenSource ==
    /\ pc = "open_source"
    /\ written' = ""
    /\ consumed' = 0
    /\ batches' = << >>
    /\ targetBefore' = target
    /\ intermediate' = ""
    /\ \/ /\ srcOff' = 0
          /\ pc' = "open_target"
          /\ err' = "nil"
       \/ /\ err' = "open_source"
          /\ pc' = "returned"
          /\ UNCHANGED srcOff
    /\ UNCHANGED <<fileVars, cfg, fnVars, unprocessed, tgtOff, scanRest, scanErr, lines,
                   chunkCounter, dirList, handles, mergeIdx, mergeRest,
                   entries, wbuf, apiVars>>

\* os.OpenFile(targetPATH, os.O_CREATE|os.O_WRONLY, 0644): the file keeps
\* its bytes and the handle starts at offset 0.
OpenTarget ==
    /\ pc = "open_target"
    /\ \/ /\ tgtOff' = 0
          /\ pc' = "read"
          /\ UNCHANGED err
       \/ /\ err' = "open_target"
          /\ pc' = "returned"
          /\ UNCHANGED tgtOff
    /\ UNCHANGED <<fileVars, cfg, fnVars, unprocessed, srcOff, scanRest, scanErr, lines,
                   chunkCounter, dirList, handles, mergeIdx, mergeRest,
                   entries, wbuf, histVars, apiVars>>

\* One iteration of the read loop: sourceFile.Read(buffer), the transform
\* of buffer[:n] and targetFile.Write(nGramChunk).
ReadChunk ==
    /\ pc = "read"
    /\ LET n == IF Len(source) - srcOff < cfg.chunkSize
                THEN Len(source) - srcOff ELSE cfg.chunkSize
           nGramChunk == TransformChunk(SubSeq(source, srcOff + 1, srcOff + n))
       IN \/ /\ err' = "read_source"
             /\ pc' = "returned"
             /\ UNCHANGED <<target, srcOff, tgtOff, written, intermediate>>
          \/ /\ n = 0
             /\ pc' = "mkdir"
             /\ intermediate' = target
             /\ UNCHANGED <<target, srcOff, tgtOff, written, err>>
          \/ /\ n > 0
             /\ target' = WriteAt(target, tgtOff, nGramChunk)
             /\ tgtOff' = tgtOff + Len(nGramChunk)
             /\ srcOff' = srcOff + n
             /\ written' = written \o nGramChunk
             /\ UNCHANGED <<pc, err, intermediate>>
          \/ /\ n > 0
             /\ err' = "write_target"
             /\ pc' = "returned"
             /\ UNCHANGED <<target, srcOff, tgtOff, written, intermediate>>
    /\ UNCHANGED <<source, tempDir, chunks, cfg, fnVars, unprocessed, scanRest, scanErr, lines,
                   chunkCounter, dirList, handles, mergeIdx, mergeRest,
                   entries, wbuf, consumed, batches, targetBefore,
                   apiVars>>

(***************************************************************************)
(* SortByAproxFrequency: the scatter-sort stage                            *)
(***************************************************************************)

\* Mutant of AfterStageError: the directory is removed on success only.
ReturnWithoutCleanup == "returned"

\* Where a failed stage of SortByAproxFrequency continues: its deferred
\* os.RemoveAll(tempDir).
AfterStageError == "cleanup"

\* os.MkdirAll(tempDir, 0755); a failure returns before the defer.
MkdirAll ==
    /\ pc = "mkdir"
    /\ \/ /\ tempDir' = TRUE
          /\ pc' = "scatter_open"
          /\ UNCHANGED err
       \/ /\ err' = "mkdir"
          /\ pc' = "returned"
          /\ UNCHANGED tempDir
    /\ UNCHANGED <<source, target, chunks, cfg, fnVars, unprocessed, genVars, histVars, apiVars>>

\* os.Open(path) and the locals of processFileChunksToTempFiles.
ScatterOpen ==
    /\ pc = "scatter_open"
    /\ \/ /\ scanRest' = ScanLines(target)
          /\ scanErr' = FALSE
          /\ lines' = << >>
          /\ chunkCounter' = 0
          /\ pc' = "scatter_scan"
          /\ UNCHANGED err
       \/ /\ err' = "open_intermediate"
          /\ pc' = AfterStageError
          /\ UNCHANGED <<scanRest, scanErr, lines, chunkCounter>>
    /\ UNCHANGED <<fileVars, cfg, fnVars, unprocessed, srcOff, tgtOff, dirList, handles, mergeIdx,
                   mergeRest, entries, wbuf, histVars, apiVars>>

\* Mutant of ChunkFileContent: equal lines of a batch are written once.
ChunkFileContentUnique(ls) ==
    LET set == {ls[i] : i \in DOMAIN ls}
        RECURSIVE Ordered(_)
        Ordered(rest) ==
            IF rest = {} THEN ""
            ELSE LET m == CHOOSE x \in rest :
                            \A y \in rest : x = y \/ StrLess(x, y)
                 IN m \o "\n" \o Ordered(rest \ {m})
    IN Ordered(set)

\* Mutant of ChunkFileContent: the batch is written in the order read.
ChunkFileContentUnsorted(ls) == WithNewlines(ls)

\* What sortAndWriteChunk writes for a batch.
ChunkFileContent(ls) == WithNewlines(SortStrings(ls))

\* The outcomes of sortAndWriteChunk(ls, tempDir, counter) on the
\* directory: the file written in full, or, on an error, no file
\* (os.Create failed) or a file holding the first k sorted lines.
ChunkWritten(dir, ls, counter) ==
    (ChunkName(counter) :> ChunkFileContent(ls)) @@ dir

ChunkWriteFailures(dir, ls, counter) ==
    {dir} \cup
    {(ChunkName(counter) :> WithNewlines(SubSeq(SortStrings(ls), 1, k))) @@ dir :
        k \in 0..(Len(ls) - 1)}

\* Mutant of BatchIsFull: the batch is written one line late.
BatchIsFullLate(ls) == Len(ls) > cfg.chunkLineCount

\* len(lines) >= chunkLineCount
BatchIsFull(ls) == Len(ls) >= cfg.chunkLineCount

\* One iteration of the scanner loop, or its end (end of file, or a read
\* error that scanner.Err() reports only after the loop).
ScatterScan ==
    /\ pc = "scatter_scan"
    /\ \/ /\ scanRest # << >>
          /\ ~BatchIsFull(Append(lines, Head(scanRest)))
          /\ lines' = Append(lines, Head(scanRest))
          /\ scanRest' = Tail(scanRest)
          /\ UNCHANGED <<chunks, chunkCounter, scanErr, pc, err>>
       \/ /\ scanRest # << >>
          /\ BatchIsFull(Append(lines, Head(scanRest)))
          /\ chunks' = ChunkWritten(chunks, Append(lines, Head(scanRest)),
                                    chunkCounter)
          /\ chunkCounter' = chunkCounter + 1
          /\ lines' = << >>
          /\ scanRest' = Tail(scanRest)
          /\ UNCHANGED <<scanErr, pc, err>>
       \/ /\ scanRest # << >>
          /\ BatchIsFull(Append(lines, Head(scanRest)))
          /\ chunks' \in ChunkWriteFailures(chunks,
                              Append(lines, Head(scanRest)), chunkCounter)
          /\ lines' = SortStrings(Append(lines, Head(scanRest)))
          /\ scanRest' = Tail(scanRest)
          /\ err' = "write_chunk"
          /\ pc' = AfterStageError
          /\ UNCHANGED <<chunkCounter, scanErr>>
       \/ /\ scanRest = << >>
          /\ pc' = "scatter_tail"
          /\ UNCHANGED <<chunks, chunkCounter, lines, scanRest, scanErr, err>>
       \/ /\ scanErr' = TRUE
          /\ pc' = "scatter_tail"
          /\ UNCHANGED <<chunks, chunkCounter, lines, scanRest, err>>
    /\ UNCHANGED <<source, target, tempDir, cfg, fnVars, unprocessed, srcOff, tgtOff, dirList,
                   handles, mergeIdx, mergeRest, entries, wbuf, histVars,
                   apiVars>>

\* After the loop: the last, partial batch is written, and only then is
\* scanner.Err() looked at.
ScatterTail ==
    /\ pc = "scatter_tail"
    /\ \/ /\ Len(lines) > 0
          /\ chunks' = ChunkWritten(chunks, lines, chunkCounter)
          /\ lines' = SortStrings(lines)
          /\ IF scanErr
             THEN err' = "read_intermediate" /\ pc' = AfterStageError
             ELSE pc' = "merge_readdir" /\ UNCHANGED err
       \/ /\ Len(lines) > 0
          /\ chunks' \in ChunkWriteFailures(chunks, lines, chunkCounter)
          /\ lines' = SortStrings(lines)
          /\ err' = "write_chunk"
          /\ pc' = AfterStageError
       \/ /\ Len(lines) = 0
          /\ UNCHANGED <<chunks, lines>>
          /\ IF scanErr
             THEN err' = "read_intermediate" /\ pc' = AfterStageError
             ELSE pc' = "merge_readdir" /\ UNCHANGED err
    /\ UNCHANGED <<source, target, tempDir, cfg, fnVars, unprocessed, srcOff, tgtOff, scanRest,
                   scanErr, chunkCounter, dirList, handles, mergeIdx,
                   mergeRest, entries, wbuf, histVars, apiVars>>

(***************************************************************************)
(* mergeSortedChunks: the aggregate stage                                  *)
(***************************************************************************)

\* os.ReadDir(tempDir)
MergeReadDir ==
    /\ pc = "merge_readdir"
    /\ \/ /\ dirList' = ReadDir(chunks)
          /\ handles' = {}
          /\ pc' = "merge_open"
          /\ UNCHANGED err
       \/ /\ err' = "read_dir"
          /\ pc' = AfterStageError
          /\ UNCHANGED <<dirList, handles>>
    /\ UNCHANGED <<fileVars, cfg, fnVars, unprocessed, srcOff, tgtOff, scanRest, scanErr, lines,
                   chunkCounter, mergeIdx, mergeRest, entries, wbuf, histVars,
                   apiVars>>

\* The loop that opens every chunk file; an os.Open that fails returns
\* with the files opened before it still open.
MergeOpen ==
    /\ pc = "merge_open"
    /\ \/ /\ handles' = Range(dirList)
          /\ pc' = "merge_create"
          /\ UNCHANGED err
       \/ \E k \in 1..Len(dirList) :
             /\ handles' = {dirList[i] : i \in 1..(k - 1)}
             /\ err' = "open_chunk"
             /\ pc' = AfterStageError
    /\ UNCHANGED <<fileVars, cfg, fnVars, unprocessed, srcOff, tgtOff, scanRest, scanErr, lines,
                   chunkCounter, dirList, mergeIdx, mergeRest, entries, wbuf,
                   histVars, apiVars>>

\* Mutant of ScannerLines: a scanner that stops after its first line.
ScannerLinesHeadOnly(idx) ==
    IF idx <= Len(dirList) /\ ScanLines(chunks[dirList[idx]]) # << >>
    THEN <<Head(ScanLines(chunks[dirList[idx]]))>> ELSE << >>

\* The lines the scanner of the idx-th chunk file will return.
ScannerLines(idx) ==
    IF idx <= Len(dirList) THEN ScanLines(chunks[dirList[idx]]) ELSE << >>

\* os.Create(targetPATH) truncates the output file; then the writer, the
\* table and the first scanner.
MergeCreate ==
    /\ pc = "merge_create"
    /\ \/ /\ target' = ""
          /\ wbuf' = ""
          /\ entries' = EmptyMap
          /\ mergeIdx' = 1
          /\ mergeRest' = ScannerLines(1)
          /\ pc' = "merge_scan"
          /\ UNCHANGED err
       \/ /\ err' = "create_output"
          /\ pc' = AfterStageError
          /\ UNCHANGED <<target, wbuf, entries, mergeIdx, mergeRest>>
    /\ UNCHANGED <<source, tempDir, chunks, cfg, fnVars, unprocessed, srcOff, tgtOff, scanRest,
                   scanErr, lines, chunkCounter, dirList, handles, histVars,
                   apiVars>>

\* Mutant of Increment: a key is recorded, its occurrences are not counted.
IncrementOnce(table, line) == (line :> 1) @@ table

\* entries[line]++
Increment(table, line) ==
    IF line \in DOMAIN table
    THEN [table EXCEPT ![line] = @ + 1]
    ELSE (line :> 1) @@ table

\* One scanner.Scan() of the current chunk file: a line is counted, or
\* the file ends and is closed, or the read fails.
MergeScan ==
    /\ pc = "merge_scan"
    /\ mergeIdx <= Len(dirList)
    /\ \/ /\ mergeRest # << >>
          /\ entries' = Increment(entries, Head(mergeRest))
          /\ mergeRest' = Tail(mergeRest)
          /\ consumed' = consumed + 1
          /\ pc' = "merge_check"
          /\ UNCHANGED <<handles, mergeIdx, err>>
       \/ /\ err' = "read_chunk"
          /\ pc' = AfterStageError
          /\ UNCHANGED <<handles, mergeIdx, mergeRest, entries, consumed>>
       \/ /\ mergeRest = << >>
          /\ handles' = handles \ {dirList[mergeIdx]}
          /\ mergeIdx' = mergeIdx + 1
          /\ mergeRest' = ScannerLines(mergeIdx + 1)
          /\ UNCHANGED <<entries, consumed, pc, err>>
       \/ /\ mergeRest = << >>
          /\ err' = "close_chunk"
          /\ pc' = AfterStageError
          /\ UNCHANGED <<handles, mergeIdx, mergeRest, entries, consumed>>
    /\ UNCHANGED <<fileVars, cfg, fnVars, unprocessed, srcOff, tgtOff, scanRest, scanErr, lines,
                   chunkCounter, dirList, wbuf, written, batches,
                   targetBefore, intermediate, apiVars>>

\* Mutant of NeedsFlush: the flush comes one key late.
NeedsFlushLate(table) == Cardinality(DOMAIN table) > cfg.flushThreshold + 1

\* Mutant of NeedsFlush: the flush comes as soon as the threshold is reached.
NeedsFlushAtThreshold(table) == Cardinality(DOMAIN table) >= cfg.flushThreshold

\* len(entries) > threshold
NeedsFlush(table) == Cardinality(DOMAIN table) > cfg.flushThreshold

\* The sequences without repetition of all the elements of a set.
RECURSIVE Perms(_)
Perms(set) ==
    IF set = {} THEN {<< >>}
    ELSE UNION {{<<x>> \o p : p \in Perms(set \ {x})} : x \in set}

FreqPairs(table) == {[str |-> k, count |-> table[k]] : k \in DOMAIN table}

\* Mutant of FlushOrders: the pairs are not sorted.
FlushOrdersUnsorted(table) == Perms(FreqPairs(table))

\* Mutant of FlushOrders: the pair of the largest count is written twice.
FlushOrdersRepeating(table) ==
    {IF o = << >> THEN o ELSE <<o[1]>> \o o :
        o \in {p \in Perms(FreqPairs(table)) :
                  \A i \in 1..(Len(p) - 1) : p[i].count >= p[i + 1].count}}

\* The orders sort.Slice can leave freqPairs in: the map is iterated in
\* any order and the sort is not stable, so pairs of equal count come in
\* any order, and a larger count comes first.
FlushOrders(table) ==
    {o \in Perms(FreqPairs(table)) :
        \A i \in 1..(Len(o) - 1) : o[i].count >= o[i + 1].count}

\* Mutant of FlushLine: the key is written as it is.
FlushLineKeepsKey(pair) == pair.str \o "\n"

\* The line flushEntriesToFile writes for a pair.
FlushLine(pair) ==
    TrimSpace(TrimSuffix(pair.str, " " \o Itoa(pair.count))) \o "\n"

RECURSIVE FlushBytes(_)
FlushBytes(pairs) ==
    IF pairs = << >> THEN ""
    ELSE FlushLine(Head(pairs)) \o FlushBytes(Tail(pairs))

\* Mutant of EntriesAfterFlush: the table is not reset.
EntriesKeptAfterFlush(table) == table

\* entries = make(map[string]int) after a flush
EntriesAfterFlush(table) == EmptyMap

\* flushEntriesToFile(entries, writer) in full, in the order o.
FlushAll(o) ==
    LET w == BufWrite(target, wbuf, FlushBytes(o), WriterSize) IN
    /\ target' = w.file
    /\ wbuf' = w.buf
    /\ batches' = Append(batches, o)

\* flushEntriesToFile failing at its WriteString number k + 1.
FlushFails(o, k) ==
    LET w == BufWrite(target, wbuf, FlushBytes(SubSeq(o, 1, k)), WriterSize) IN
    /\ target' = w.file
    /\ wbuf' = w.buf
    /\ err' = "flush"
    /\ pc' = AfterStageError
    /\ UNCHANGED <<entries, batches>>

\* The test after entries[line]++ and the flush it asks for.
MergeCheck ==
    /\ pc = "merge_check"
    /\ \/ /\ ~NeedsFlush(entries)
          /\ pc' = "merge_scan"
          /\ UNCHANGED <<target, wbuf, entries, batches, err>>
       \/ /\ NeedsFlush(entries)
          /\ \E o \in FlushOrders(entries) : FlushAll(o)
          /\ entries' = EntriesAfterFlush(entries)
          /\ pc' = "merge_scan"
          /\ UNCHANGED err
       \/ /\ NeedsFlush(entries)
          /\ \E o \in FlushOrders(entries) : \E k \in 0..(Len(o) - 1) :
                FlushFails(o, k)
    /\ UNCHANGED <<source, tempDir, chunks, cfg, fnVars, unprocessed, srcOff, tgtOff, scanRest,
                   scanErr, lines, chunkCounter, dirList, handles, mergeIdx,
                   mergeRest, written, consumed, targetBefore, intermediate,
                   apiVars>>

\* After the last chunk file: the flush of the remaining entries.
MergeFinal ==
    /\ pc = "merge_scan"
    /\ mergeIdx > Len(dirList)
    /\ \/ /\ Cardinality(DOMAIN entries) = 0
          /\ pc' = "merge_wflush"
          /\ UNCHANGED <<target, wbuf, batches, err>>
       \/ /\ Cardinality(DOMAIN entries) > 0
          /\ \E o \in FlushOrders(entries) : FlushAll(o)
          /\ pc' = "merge_wflush"
          /\ UNCHANGED err
       \/ /\ Cardinality(DOMAIN entries) > 0
          /\ \E o \in FlushOrders(entries) : \E k \in 0..(Len(o) - 1) :
                FlushFails(o, k)
    /\ UNCHANGED <<source, tempDir, chunks, cfg, fnVars, unprocessed, srcOff, tgtOff, scanRest,
                   scanErr, lines, chunkCounter, dirList, handles, mergeIdx,
                   mergeRest, entries, written, consumed, targetBefore,
                   intermediate,
                   apiVars>>

\* writer.Flush()
MergeWriterFlush ==
    /\ pc = "merge_wflush"
    /\ \/ /\ target' = target \o wbuf
          /\ wbuf' = ""
          /\ pc' = "cleanup"
          /\ UNCHANGED err
       \/ /\ err' = "writer_flush"
          /\ pc' = AfterStageError
          /\ UNCHANGED <<target, wbuf>>
    /\ UNCHANGED <<source, tempDir, chunks, cfg, fnVars, unprocessed, srcOff, tgtOff, scanRest,
                   scanErr, lines, chunkCounter, dirList, handles, mergeIdx,
                   mergeRest, entries, histVars, apiVars>>

\* The deferred os.RemoveAll(tempDir) of SortByAproxFrequency, and the
\* return of CreateWizardWordlist with the error of the stage.
Cleanup ==
    /\ pc = "cleanup"
    /\ tempDir' = FALSE
    /\ chunks' = EmptyMap
    /\ pc' = "returned"
    /\ UNCHANGED <<source, target, cfg, fnVars, unprocessed, err, genVars, histVars, apiVars>>

Generation ==
    \/ OpenSource
    \/ OpenTarget
    \/ ReadChunk
    \/ MkdirAll
    \/ ScatterOpen
    \/ ScatterScan
    \/ ScatterTail
    \/ MergeReadDir
    \/ MergeOpen
    \/ MergeCreate
    \/ MergeScan
    \/ MergeCheck
    \/ MergeFinal
    \/ MergeWriterFlush
    \/ Cleanup

(***************************************************************************)
(* One generation run                                                      *)
(***************************************************************************)

\* The tunables, scaled down: the byte-chunk sizes, the largest batch of
\* the scatter-sort stage and the largest flush threshold.
SmallChunkSize == 8

ByteChunkSize == 72

MaxChunkLineCount == 2

MaxFlushThreshold == 2

Word32 == "abcdefghijklmnopqrstuvwxyzabcdef"

Word33 == "abcdefghijklmnopqrstuvwxyzabcdefg"

\* Source wordlists: repeated lines, phrases, digits to trim, a line that
\* is too long, one of the greatest length, bytes outside ASCII, a CRLF
\* line end and the empty file.
RunSources ==
    {"password123\npassword123\nhunter2\n",
     "hello world hello\nabcd1 12345\n",
     Word33 \o "\n" \o Word32 \o "\n",
     "cafÃ©s 1horse2\r\n",
     ""}

\* What the output file holds before the run.
PriorTargets == {"", "zebra\n", "oldpassword\nmonkey\nletmein\ndragon\n"}

Configs ==
    [chunkSize : {SmallChunkSize, ByteChunkSize},
     chunkLineCount : 1..MaxChunkLineCount,
     flushThreshold : 1..MaxFlushThreshold]

\* The locals of a run before it starts, and the history.
GenIdle ==
    /\ err = "nil"
    /\ srcOff = 0
    /\ tgtOff = 0
    /\ scanRest = << >>
    /\ scanErr = FALSE
    /\ lines = << >>
    /\ chunkCounter = 0
    /\ dirList = << >>
    /\ handles = {}
    /\ mergeIdx = 1
    /\ mergeRest = << >>
    /\ entries = EmptyMap
    /\ wbuf = ""
    /\ written = ""
    /\ consumed = 0
    /\ batches = << >>
    /\ targetBefore = target
    /\ intermediate = ""

\* CreateWizardWordlist(source, target) called by the updater, which
\* holds the lock.
InitRun ==
    /\ source \in RunSources
    /\ target \in PriorTargets
    /\ tempDir = FALSE
    /\ chunks = EmptyMap
    /\ cfg \in Configs
    /\ pc = "open_source"
    /\ GenIdle
    /\ unprocessed = FALSE
    /\ Mu = <<"updater">>
    /\ LastUploaded = 1
    /\ LastUpdated = 0
    /\ clock = 1
    /\ handlers = EmptyMap
    /\ importDir = << >>
    /\ FnIdle

NextRun == Generation

SpecRun == InitRun /\ [][NextRun]_vars

(***************************************************************************)
(* Ingestion: UploadHandler, ImportHandler, appendFileToWordlist           *)
(***************************************************************************)

\* The byte of a value of the modelled alphabet.
Chr(n) == CHOOSE c \in DOMAIN ByteTable : ByteTable[c] = n

HexDigits == "0123456789abcdef"

IsHexDigit(c) == \E i \in 1..16 : At(HexDigits, i) = LowerByte(c)

HexValue(c) == (CHOOSE i \in 1..16 : At(HexDigits, i) = LowerByte(c)) - 1

\* hex.DecodeString: an error on an odd length or on a byte that is no
\* hexadecimal digit.
HexOk(h) ==
    /\ Len(h) % 2 = 0
    /\ \A i \in 1..Len(h) : IsHexDigit(At(h, i))

RECURSIVE HexDecode(_)
HexDecode(h) ==
    IF h = "" THEN ""
    ELSE Chr(16 * HexValue(At(h, 1)) + HexValue(At(h, 2)))
           \o HexDecode(SubSeq(h, 3, Len(h)))

\* First index at or after i where sub starts in s, 0 when there is none.
RECURSIVE IndexFrom(_, _, _)
IndexFrom(s, sub, i) ==
    IF i + Len(sub) - 1 > Len(s) THEN 0
    ELSE IF SubSeq(s, i, i + Len(sub) - 1) = sub THEN i
    ELSE IndexFrom(s, sub, i + 1)

\* ConvertHexToPlaintext from byte pos on: every match of \$HEX\[(.*?)\]
\* is replaced by its decoded bytes; one undecodable match fails the call.
RECURSIVE ConvertFrom(_, _)
ConvertFrom(hash, pos) ==
    LET start == IndexFrom(hash, "$HEX[", pos)
        close == IF start = 0 THEN 0 ELSE IndexFrom(hash, "]", start + 5)
    IN IF start = 0 \/ close = 0
       THEN [ok |-> TRUE, text |-> SubSeq(hash, pos, Len(hash))]
       ELSE LET digits == SubSeq(hash, start + 5, close - 1)
                rest == ConvertFrom(hash, close + 1)
            IN IF HexOk(digits) /\ rest.ok
               THEN [ok |-> TRUE,
                     text |-> SubSeq(hash, pos, start - 1)
                                \o HexDecode(digits) \o rest.text]
               ELSE [ok |-> FALSE, text |-> ""]

ConvertHexToPlaintext(hash) == ConvertFrom(hash, 1)

\* The test the handlers apply to a line, and what they store for it.
Accepted(line) ==
    /\ ~IsAllDigitsOrSpecialChars(line)
    /\ ContainsOnlyASCII(line)
    /\ LikelyContainsWords(line)
    /\ IsQualityCandidateCheck(line)

IngestCandidate(line) ==
    IF ConvertHexToPlaintext(line).ok
    THEN ConvertHexToPlaintext(line).text
    ELSE line

RECURSIVE TransformedLines(_)
TransformedLines(ls) ==
    IF ls = << >> THEN << >>
    ELSE (IF Accepted(IngestCandidate(Head(ls)))
          THEN <<TrimSpace(ToLower(IngestCandidate(Head(ls))))>>
          ELSE << >>)
           \o TransformedLines(Tail(ls))

\* updatedContent for one read buffer.
UpdatedContent(content) == Join(TransformedLines(Split(content)), "\n")

\* Size of the read buffer of the handlers (4 MiB, scaled down).
UploadBufferSize == 16

\* Number of request goroutines.
NumHandlers == 2

Handlers == 1..NumHandlers

\* The files a client can post.
UploadFiles == {"$HEX[686f72]ses\nhunter2"}

\* The import directory before any import: name -> bytes.
ImportFiles == ("leak.txt" :> "hunter2\n") @@ ("notes.md" :> "not imported")

\* The read buffers a handler can fill, and updatedContent for each of
\* them, computed once.
ReadBuffers ==
    UNION {{SubSeq(f, o + 1, IF Len(f) - o < UploadBufferSize
                             THEN Len(f) ELSE o + UploadBufferSize) :
               o \in 0..Len(f)} :
           f \in UploadFiles \cup Range(ImportFiles)}

UpdatedContentOf == [content \in ReadBuffers |-> UpdatedContent(content)]

HasSuffix(s, suffix) ==
    Len(suffix) <= Len(s) /\ SubSeq(s, Len(s) - Len(suffix) + 1, Len(s)) = suffix

\* time.Now(): later than every time read before.
Now == clock + 1

\* A lock acquisition that does not wait for the holder to unlock.
MuLockNoWait(g) == Mu' = g

\* Mu.Lock() by goroutine g; Mu is << >> when unlocked, else its holder.
MuLock(g) == Mu = << >> /\ Mu' = g

\* A request arrives and its handler goroutine starts.
Request(h) ==
    /\ handlers[h].pc = "idle"
    /\ \/ \E f \in UploadFiles :
             handlers' = [handlers EXCEPT ![h] =
                 [@ EXCEPT !.pc = "lock", !.kind = "upload", !.file = f, !.off = 0]]
       \/ handlers' = [handlers EXCEPT ![h] =
                 [@ EXCEPT !.pc = "lock", !.kind = "import"]]
    /\ UNCHANGED <<fileVars, cfg, fnVars, unprocessed, pc, err, genVars, histVars, Mu, LastUploaded,
                   LastUpdated, clock, importDir>>

\* Mu.Lock(); defer Mu.Unlock()
HandlerLock(h) ==
    /\ handlers[h].pc = "lock"
    /\ MuLock(<<"handler", h>>)
    /\ handlers' = [handlers EXCEPT ![h] =
           [@ EXCEPT !.pc = IF handlers[h].kind = "upload"
                            THEN "form_file" ELSE "stat_dir",
                     !.before = source]]
    /\ UNCHANGED <<fileVars, cfg, fnVars, unprocessed, pc, err, genVars, histVars, LastUploaded,
                   LastUpdated, clock, importDir>>

\* Mutant of Respond: an error return that skips the deferred unlock.
RespondWithoutUnlock(h, status) ==
    handlers' = [handlers EXCEPT ![h] = [@ EXCEPT !.pc = "finished", !.status = status]]

\* The handler answers with an error status and returns.
Respond(h, status) ==
    handlers' = [handlers EXCEPT ![h] = [@ EXCEPT !.pc = "unlock", !.status = status]]

\* c.Request.FormFile("file")
UploadFormFile(h) ==
    /\ handlers[h].pc = "form_file"
    /\ \/ handlers' = [handlers EXCEPT ![h].pc = "open"]
       \/ Respond(h, 400)
    /\ UNCHANGED <<fileVars, cfg, fnVars, unprocessed, pc, err, genVars, histVars, Mu, LastUploaded,
                   LastUpdated, clock, importDir>>

\* os.OpenFile(models.SourceWordlist, os.O_APPEND|os.O_WRONLY, ...),
\* targetFile.Stat() and the "\n" written when the file is not empty.
UploadOpen(h) ==
    /\ handlers[h].pc = "open"
    /\ \/ /\ handlers' = [handlers EXCEPT ![h].pc = "read"]
          /\ source' = IF Len(source) > 0 THEN source \o "\n" ELSE source
       \/ /\ Respond(h, 500)
          /\ UNCHANGED source
    /\ UNCHANGED <<target, tempDir, chunks, cfg, fnVars, unprocessed, pc, err, genVars, histVars, Mu,
                   LastUploaded, LastUpdated, clock, importDir>>

\* One iteration of the read loop of UploadHandler.
UploadRead(h) ==
    /\ handlers[h].pc = "read"
    /\ LET hd == handlers[h]
           n == IF Len(hd.file) - hd.off < UploadBufferSize
                THEN Len(hd.file) - hd.off ELSE UploadBufferSize
           content == SubSeq(hd.file, hd.off + 1, hd.off + n)
       IN \/ /\ n = 0
             /\ handlers' = [handlers EXCEPT ![h].pc = "done"]
             /\ UNCHANGED source
          \/ /\ n > 0
             /\ source' = source \o UpdatedContentOf[content]
             /\ handlers' = [handlers EXCEPT ![h].off = hd.off + n]
          \/ /\ Respond(h, 500)
             /\ UNCHANGED source
    /\ UNCHANGED <<target, tempDir, chunks, cfg, fnVars, unprocessed, pc, err, genVars, histVars, Mu,
                   LastUploaded, LastUpdated, clock, importDir>>

\* models.LastUploaded = time.Now() and the 200 answer, of both handlers.
HandlerDone(h) ==
    /\ handlers[h].pc = "done"
    /\ LastUploaded' = Now
    /\ clock' = Now
    /\ handlers' = [handlers EXCEPT ![h] = [@ EXCEPT !.pc = "unlock", !.status = 200]]
    /\ unprocessed' = (unprocessed \/ handlers[h].off > 0)
    /\ UNCHANGED <<fileVars, cfg, fnVars, pc, err, genVars, histVars, Mu, LastUpdated,
                   importDir>>

\* os.Stat / os.MkdirAll of the import directory and os.ReadDir.
ImportReadDir(h) ==
    /\ handlers[h].pc = "stat_dir"
    /\ \/ handlers' = [handlers EXCEPT ![h] =
              [@ EXCEPT !.pc = "next_file", !.files = ReadDir(importDir)]]
       \/ Respond(h, 500)
    /\ UNCHANGED <<fileVars, cfg, fnVars, unprocessed, pc, err, genVars, histVars, Mu, LastUploaded,
                   LastUpdated, clock, importDir>>

\* The head of the loop over the directory entries: a ".txt" file is
\* opened, and so is the source wordlist, by appendFileToWordlist.
ImportNextFile(h) ==
    /\ handlers[h].pc = "next_file"
    /\ LET hd == handlers[h] IN
       \/ /\ hd.files = << >>
          /\ handlers' = [handlers EXCEPT ![h].pc = "done"]
       \/ /\ hd.files # << >>
          /\ ~HasSuffix(Head(hd.files), ".txt")
          /\ handlers' = [handlers EXCEPT ![h].files = Tail(hd.files)]
       \/ /\ hd.files # << >>
          /\ HasSuffix(Head(hd.files), ".txt")
          /\ Head(hd.files) \in DOMAIN importDir
          /\ handlers' = [handlers EXCEPT ![h] =
                 [@ EXCEPT !.pc = "append", !.file = importDir[Head(hd.files)],
                           !.off = 0]]
       \/ /\ hd.files # << >>
          /\ HasSuffix(Head(hd.files), ".txt")
          /\ Respond(h, 500)
    /\ UNCHANGED <<fileVars, cfg, fnVars, unprocessed, pc, err, genVars, histVars, Mu, LastUploaded,
                   LastUpdated, clock, importDir>>

\* One iteration of the read loop of appendFileToWordlist, and after the
\* loop the os.Remove of the imported file.
ImportAppend(h) ==
    /\ handlers[h].pc = "append"
    /\ LET hd == handlers[h]
           n == IF Len(hd.file) - hd.off < UploadBufferSize
                THEN Len(hd.file) - hd.off ELSE UploadBufferSize
           content == SubSeq(hd.file, hd.off + 1, hd.off + n)
       IN \/ /\ n > 0
             /\ source' = source \o UpdatedContentOf[content]
             /\ handlers' = [handlers EXCEPT ![h].off = hd.off + n]
             /\ UNCHANGED importDir
          \/ /\ n = 0
             /\ importDir' = [f \in DOMAIN importDir \ {Head(hd.files)} |->
                                 importDir[f]]
             /\ handlers' = [handlers EXCEPT ![h] =
                    [@ EXCEPT !.pc = "next_file", !.files = Tail(hd.files)]]
             /\ UNCHANGED source
          \/ /\ Respond(h, 500)
             /\ UNCHANGED <<source, importDir>>
    /\ UNCHANGED <<target, tempDir, chunks, cfg, fnVars, unprocessed, pc, err, genVars, histVars, Mu,
                   LastUploaded, LastUpdated, clock>>

\* The deferred Mu.Unlock() as the handler returns.
HandlerUnlock(h) ==
    /\ handlers[h].pc = "unlock"
    /\ Mu' = << >>
    /\ handlers' = [handlers EXCEPT ![h] = [@ EXCEPT !.pc = "finished", !.before = ""]]
    /\ UNCHANGED <<fileVars, cfg, fnVars, unprocessed, pc, err, genVars, histVars, LastUploaded,
                   LastUpdated, clock, importDir>>

(***************************************************************************)
(* The updater goroutine of init                                           *)
(***************************************************************************)

\* case <-ticker.C: if models.LastUploaded.After(models.LastUpdated)
Tick ==
    /\ pc = "idle"
    /\ pc' = IF LastUploaded > LastUpdated THEN "lock" ELSE "idle"
    /\ UNCHANGED <<fileVars, cfg, fnVars, unprocessed, err, genVars, histVars, apiVars>>

\* api.Mu.Lock() before generate.CreateWizardWordlist
UpdaterLock ==
    /\ pc = "lock"
    /\ MuLock(<<"updater">>)
    /\ pc' = "open_source"
    /\ unprocessed' = FALSE
    /\ UNCHANGED <<fileVars, cfg, fnVars, err, genVars, histVars, LastUploaded,
                   LastUpdated, clock, handlers, importDir>>

\* api.Mu.Unlock() after CreateWizardWordlist has returned; its error is
\* not looked at.
UpdaterUnlock ==
    /\ pc = "returned"
    /\ Mu' = << >>
    /\ pc' = "unlocked"
    /\ UNCHANGED <<fileVars, cfg, fnVars, unprocessed, err, genVars, histVars, LastUploaded,
                   LastUpdated, clock, handlers, importDir>>

\* models.LastUpdated = time.Now()
SetLastUpdated ==
    /\ pc = "unlocked"
    /\ LastUpdated' = Now
    /\ clock' = Now
    /\ pc' = "idle"
    /\ UNCHANGED <<fileVars, cfg, fnVars, unprocessed, err, genVars, histVars, Mu, LastUploaded,
                   handlers, importDir>>

\* After init: both wordlists exist and are empty, nothing was uploaded.
ServerInit ==
    /\ source = ""
    /\ target = ""
    /\ tempDir = FALSE
    /\ chunks = EmptyMap
    /\ cfg = [chunkSize |-> ByteChunkSize,
              chunkLineCount |-> MaxChunkLineCount,
              flushThreshold |-> MaxFlushThreshold]
    /\ pc = "idle"
    /\ GenIdle
    /\ unprocessed = FALSE
    /\ Mu = << >>
    /\ LastUploaded = 0
    /\ LastUpdated = 0
    /\ clock = 0
    /\ handlers = [h \in Handlers |->
                      [pc |-> "idle", kind |-> "none", file |-> "", off |-> 0,
                       files |-> << >>, status |-> 0,
                       before |-> ""]]
    /\ importDir = ImportFiles

Init == ServerInit /\ FnIdle

Next ==
    \/ Tick
    \/ UpdaterLock
    \/ Generation
    \/ UpdaterUnlock
    \/ SetLastUpdated
    \/ \E h \in Handlers :
          \/ Request(h)
          \/ HandlerLock(h)
          \/ UploadFormFile(h)
          \/ UploadOpen(h)
          \/ UploadRead(h)
          \/ ImportReadDir(h)
          \/ ImportNextFile(h)
          \/ ImportAppend(h)
          \/ HandlerDone(h)
          \/ HandlerUnlock(h)

Spec == Init /\ [][Next]_vars

\* The steps of request goroutine h once its request has arrived.
HandlerStep(h) ==
    \/ HandlerLock(h)
    \/ UploadFormFile(h)
    \/ UploadOpen(h)
    \/ UploadRead(h)
    \/ ImportReadDir(h)
    \/ ImportNextFile(h)
    \/ ImportAppend(h)
    \/ HandlerDone(h)
    \/ HandlerUnlock(h)

\* The steps of the updater goroutine after a tick.
UpdaterStep ==
    \/ UpdaterLock
    \/ Generation
    \/ UpdaterUnlock
    \/ SetLastUpdated

\* The Go scheduler: a goroutine that can run does run, and the ticker
\* keeps firing.
SpecFair ==
    /\ Spec
    /\ WF_vars(Tick)
    /\ WF_vars(UpdaterStep)
    /\ \A h \in Handlers : WF_vars(HandlerStep(h))

(***************************************************************************)
(* Functions called on their own (SpecFn)                                  *)
(***************************************************************************)

\* A call of function fn that has not returned yet.
Call(fn, text, a, b, sub) ==
    [fn |-> fn, text |-> text, bytes |-> << >>, a |-> a, b |-> b, sub |-> sub]

\* A call whose string argument is given by the values of its bytes.
CallOnBytes(fn, bytes) == [Call(fn, "", 0, 0, "") EXCEPT !.bytes = bytes]

\* The string of the bytes bs.
RECURSIVE FromBytes(_)
FromBytes(bs) ==
    IF bs = << >> THEN "" ELSE Chr(Head(bs)) \o FromBytes(Tail(bs))

\* The call of fnCall returns v.
Returns(fn, v) ==
    /\ fnCall.fn = fn
    /\ fnResult = << >>
    /\ fnResult' = <<v>>
    /\ UNCHANGED <<fnCall, serverVars>>

\* Function fn has returned.
Returned(fn) == fnCall.fn = fn /\ fnResult # << >>

\* Largest number of words of a phrase line and largest n-gram size.
MaxWords == 3

MaxRange == 2

PhraseWords == {"correct", "horse", "battery"}

\* The lines of n words of PhraseWords, one space between two words.
RECURSIVE PhraseLines(_)
PhraseLines(n) ==
    IF n = 1 THEN PhraseWords
    ELSE {p \o " " \o w : p \in PhraseLines(n - 1), w \in PhraseWords}

TransformCalls ==
    {Call("TransformChunk", text, a, b, "") :
        text \in UNION {PhraseLines(n) : n \in 1..MaxWords},
        a \in 1..MaxRange, b \in 1..MaxRange}

\* The transform of one read buffer, lines as a sequence.
CallTransform ==
    Returns("TransformChunk",
            ScanLines(TransformWith(fnCall.text, fnCall.a, fnCall.b)))

\* Words with and without the punctuation GenerateNGrams removes.
NGramWords == {"ab", "c.", ";"}

RECURSIVE NGramLines(_)
NGramLines(n) ==
    IF n = 0 THEN {""}
    ELSE {p \o " " \o w : p \in NGramLines(n - 1), w \in NGramWords}

NGramCalls ==
    {Call("GenerateNGrams", text, a, b, "") :
        text \in UNION {NGramLines(n) : n \in 0..MaxWords},
        a \in 1..MaxRange, b \in 1..MaxRange}

CallGenerateNGrams ==
    Returns("GenerateNGrams", GenerateNGrams(fnCall.text, fnCall.a, fnCall.b))

\* Longest text given to the predicates, and the bytes it is made of: a
\* vowel, a consonant, a digit and the two bytes of U+00E9.
MaxTextLen == 6

TextBytes == {97, 98, 49, 195, 169}

Texts == UNION {[1..n -> TextBytes] : n \in 0..MaxTextLen}

WordCalls == {CallOnBytes("LikelyContainsWords", bs) : bs \in Texts}

CallLikelyContainsWords ==
    Returns("LikelyContainsWords", LikelyContainsWords(FromBytes(fnCall.bytes)))

\* Strings of the kinds the denylist is about, alone and inside a longer
\* string.
DenylistSamples ==
    {"http://", "https://", "http:\\/\\/", "https:\\/\\/",
     "john@example.com", "john@example\\.com", "\\@example\\.net",
     "@example.net", "gmail", "hotmail", "<div>", "<a href", "12345678",
     "abcde", "abcdef", "pass\n", ""}

DenylistCalls ==
    {Call("IsQualityCandidateCheck", pre \o mid \o post, 0, 0, "") :
        pre \in {"", "see "}, mid \in DenylistSamples, post \in {"", "/page"}}

CallIsQualityCandidateCheck ==
    Returns("IsQualityCandidateCheck", IsQualityCandidateCheck(fnCall.text))

\* Lines to trim: a letter, a digit and a carriage return.
TrimBytes == {97, 49, 13}

TrimCalls ==
    {CallOnBytes("TrimDigits", bs) :
        bs \in UNION {[1..n -> TrimBytes] : n \in 0..MaxTextLen}}

\* removeLeadingDigits(removeTrailingDigits(data)) as the read loop of
\* CreateWizardWordlist applies them.
TrimDigits(data) == removeLeadingDigits(removeTrailingDigits(data))

CallTrimDigits ==
    Returns("TrimDigits", TrimDigits(FromBytes(fnCall.bytes) \o "\n"))

\* The scan loop of GetFirstNLines: a matching line is appended, then
\* the loop ends once len(lines) >= n.
RECURSIVE FirstNFrom(_, _, _, _)
FirstNFrom(rest, n, substrLower, acc) ==
    IF rest = << >> THEN acc
    ELSE LET kept == IF \/ substrLower = ""
                        \/ Contains(ToLower(Head(rest)), substrLower)
                     THEN Append(acc, Head(rest)) ELSE acc
         IN IF Len(kept) >= n THEN kept
            ELSE FirstNFrom(Tail(rest), n, substrLower, kept)

\* GetFirstNLines on a file of the given content, without I/O failure.
GetFirstNLines(content, n, substring) ==
    FirstNFrom(ScanLines(content), n, ToLower(substring), << >>)

\* Largest number of lines of the file read and largest n asked for.
MaxLines == 3

MaxN == 3

WordlistLines == {"Alpha", "beta", "ALPHABET"}

RECURSIVE WordlistFiles(_)
WordlistFiles(n) ==
    IF n = 0 THEN {""}
    ELSE {f \o w \o "\n" : f \in WordlistFiles(n - 1), w \in WordlistLines}

FirstNCalls ==
    {Call("GetFirstNLines", f, n, 0, sub) :
        f \in UNION {WordlistFiles(k) : k \in 0..MaxLines},
        n \in 0..MaxN, sub \in {"", "alpha", "BET", "z"}}

CallGetFirstNLines ==
    Returns("GetFirstNLines",
            GetFirstNLines(fnCall.text, fnCall.a, fnCall.sub))

\* Largest count of a table entry handed to flushEntriesToFile.
MaxCount == 12

FlushKeys ==
    {"horse", "horse 1", "horse 2", "horse 12", "horse1", "horse  1",
     " horse", "horse ", "horse\t", "two words", " 1", "1"}

FlushCalls ==
    {Call("flushEntriesToFile", key, count, 0, "") :
        key \in FlushKeys, count \in 1..MaxCount}

\* flushEntriesToFile on a table of one entry: the line it writes.
CallFlushEntriesToFile ==
    Returns("flushEntriesToFile",
            FlushLine([str |-> fnCall.text, count |-> fnCall.a]))

\* Largest length of a line given to PrepareStringForTransformations.
MaxLineLen == 5

\* Bytes of cleaned, lower-cased lines: a, b, space, "-", "1" and "'".
LineBytes == {97, 98, 32, 45, 49, 39}

PrepareCalls ==
    {CallOnBytes("PrepareStringForTransformations", bs) :
        bs \in UNION {[1..n -> LineBytes] : n \in 1..MaxLineLen}}

\* PrepareStringForTransformations on a chunk of one line.
CallPrepareStringForTransformations ==
    Returns("PrepareStringForTransformations",
            PrepareStringForTransformations(FromBytes(fnCall.bytes) \o "\n"))

\* x is one of the calls made: a function and its arguments.
IsFnCall(x) ==
    \/ x \in TransformCalls
    \/ x \in NGramCalls
    \/ x \in WordCalls
    \/ x \in DenylistCalls
    \/ x \in TrimCalls
    \/ x \in FirstNCalls
    \/ x \in FlushCalls
    \/ x \in PrepareCalls

InitFn ==
    /\ ServerInit
    /\ IsFnCall(fnCall)
    /\ fnResult = << >>

NextFn ==
    \/ CallTransform
    \/ CallGenerateNGrams
    \/ CallLikelyContainsWords
    \/ CallIsQualityCandidateCheck
    \/ CallTrimDigits
    \/ CallGetFirstNLines
    \/ CallFlushEntriesToFile
    \/ CallPrepareStringForTransformations

SpecFn == InitFn /\ [][NextFn]_vars

(***************************************************************************)
(* DownloadHandler beside a generation run                                 *)
(***************************************************************************)

\* The substrings a client asks for.
DownloadSubstrings == {"", "o"}

\* DownloadHandler: it takes no lock.  The answer is 400 when n is no
\* number, 500 when the output file cannot be opened, else 200 with the
\* lines of GetFirstNLines, read here in one step (the file is smaller
\* than the buffer of the scanner).
DownloadHandler ==
    /\ fnResult = << >>
    /\ \E n \in 1..MaxN, substring \in DownloadSubstrings :
          /\ fnCall' = Call("DownloadHandler", "", n, 0, substring)
          /\ \/ fnResult' = <<[status |-> 200,
                               lines |-> GetFirstNLines(target, n, substring)]>>
             \/ fnResult' = <<[status |-> 500, lines |-> << >>]>>
             \/ fnResult' = <<[status |-> 400, lines |-> << >>]>>
    /\ UNCHANGED serverVars

NextDownload ==
    \/ Generation
    \/ DownloadHandler

SpecDownload == InitRun /\ [][NextDownload]_vars

(***************************************************************************)
(* Properties of the server (Spec)                                         *)
(***************************************************************************)

\* Handler h is between its Mu.Lock() and its deferred Mu.Unlock().
HandlerInSection(h) ==
    handlers[h].pc \in {"form_file", "open", "read", "stat_dir", "next_file",
                        "append", "done", "unlock"}

\* The updater is between api.Mu.Lock() and api.Mu.Unlock(): anywhere in
\* CreateWizardWordlist.
UpdaterInSection == pc \notin {"idle", "lock", "unlocked"}

\* The goroutines that are appending to the source or running a generation.
Mutators ==
    {<<"handler", h>> : h \in {x \in Handlers : HandlerInSection(x)}}
        \cup (IF UpdaterInSection THEN {<<"updater">>} ELSE {})

\* C1: at no time are two mutators of the corpus files (an upload append,
\* an import append, a generation run) inside their file mutation together,
\* and the one that is inside holds the shared lock.
C1_OneMutatorAtATime ==
    /\ Cardinality(Mutators) <= 1
    /\ \A m \in Mutators : Mu = m

\* C1 witness: a generation run is in its scatter stage while one handler
\* waits for the lock with a request and another has already appended.
C1_Witness ==
    /\ pc = "scatter_scan"
    /\ \E h \in Handlers : handlers[h].pc = "lock"
    /\ \E h \in Handlers : handlers[h].pc = "finished" /\ handlers[h].status = 200

(***************************************************************************)
(* Properties of one generation run (SpecRun)                              *)
(***************************************************************************)

RunSucceeded == pc = "returned" /\ err = "nil"

\* Number of lines of a file whose lines all end in "\n".
NumLines(content) ==
    Cardinality({i \in 1..Len(content) : At(content, i) = "\n"})

\* C2 as stated: when the aggregate stage has run to its end, the output
\* file holds as many lines as were read from the chunk files.
C2_WrittenEqualsRead == RunSucceeded => NumLines(target) = consumed

\* C2 amended: the output file holds one line per distinct key of each
\* flush batch, the counts of the batches add up to the number of lines
\* read, and so no more lines are written than were read.
C2_OneLinePerKeyOfEachBatch ==
    RunSucceeded =>
        /\ NumLines(target) = Len(Flatten(batches))
        /\ SumCounts(Flatten(batches)) = consumed
        /\ NumLines(target) <= consumed

\* C2 witness: a run with several batches in which a repeated line made
\* the output shorter than the input.
C2_Witness ==
    RunSucceeded /\ Len(batches) >= 2 /\ NumLines(target) < consumed

\* The lines of all chunk files, and the lines the scatter stage has read.
RECURSIVE LinesOfFiles(_, _)
LinesOfFiles(dir, names) ==
    IF names = << >> THEN << >>
    ELSE ScanLines(dir[Head(names)]) \o LinesOfFiles(dir, Tail(names))

AllChunkLines == LinesOfFiles(chunks, ReadDir(chunks))

ScatterRead ==
    SubSeq(ScanLines(target), 1, Len(ScanLines(target)) - Len(scanRest))

\* C3: while the scatter-sort stage runs without a write error, the lines
\* of the chunk files together with the batch in memory are, as a
\* multiset, the lines read so far; when the stage has ended, the chunk
\* files hold exactly the multiset of the lines of the intermediate file.
C3_ScatterKeepsMultiset ==
    /\ (pc \in {"scatter_scan", "scatter_tail"} /\ err = "nil") =>
          BagOfSeq(AllChunkLines \o lines) = BagOfSeq(ScatterRead)
    /\ pc = "merge_readdir" =>
          BagOfSeq(AllChunkLines) = BagOfSeq(ScanLines(target))

\* C3 witness: the stage has ended with several chunk files, the last one
\* not full, and a line that occurs twice.
C3_Witness ==
    /\ pc = "merge_readdir"
    /\ Cardinality(DOMAIN chunks) >= 2
    /\ Len(lines) < cfg.chunkLineCount
    /\ \E l \in DOMAIN BagOfSeq(AllChunkLines) : BagOfSeq(AllChunkLines)[l] >= 2

\* C4 as stated: the table never holds more keys than the threshold.
C4_TableWithinThreshold == Cardinality(DOMAIN entries) <= cfg.flushThreshold

\* C4 amended: the table never holds more than threshold + 1 keys, and
\* holds at most threshold keys whenever the next line is about to be read
\* (it exceeds the threshold only between the insertion of a key and the
\* flush that insertion asks for).
C4_TableWithinThresholdPlusOne ==
    /\ Cardinality(DOMAIN entries) <= cfg.flushThreshold + 1
    /\ pc = "merge_scan" => Cardinality(DOMAIN entries) <= cfg.flushThreshold

\* C4 witness: the table holds threshold + 1 keys and is about to be
\* flushed.
C4_Witness ==
    pc = "merge_check" /\ Cardinality(DOMAIN entries) = cfg.flushThreshold + 1

\* C5: in every flush batch a pair written earlier has a count at least
\* that of a pair written later, and the bytes sent to the output file
\* are the lines of the batches in that order.
C5_BatchesInDescendingCount ==
    /\ \A b \in DOMAIN batches :
          \A i, j \in DOMAIN batches[b] :
              i < j => batches[b][i].count >= batches[b][j].count
    /\ (pc \in {"merge_scan", "merge_check", "merge_wflush"} \/ RunSucceeded) =>
          target \o wbuf = FlushBytes(Flatten(batches))

\* C5 witness: a finished run wrote a batch whose first key was counted
\* more often than its last.
C5_Witness ==
    /\ RunSucceeded
    /\ \E b \in DOMAIN batches :
          /\ Len(batches[b]) >= 2
          /\ batches[b][1].count > batches[b][Len(batches[b])].count

\* C6 as stated: the output of a run depends on the source only; its
\* lines are the lines the transform stage wrote in this run, whatever
\* the output file held before.
C6_OutputFromThisRunOnly ==
    RunSucceeded => Range(ScanLines(target)) = Range(ScanLines(written))

\* C7: every line the transform stage has written is 4 to 32 bytes long.
C7_LengthBounds ==
    LET kept == ScanLines(written) IN
    \A i \in DOMAIN kept :
        /\ Len(kept[i]) >= MinLength
        /\ Len(kept[i]) <= MaxLength

\* C7 witness: a whole source line longer than 32 bytes was read in one
\* chunk and dropped, and a line of exactly 32 bytes was written.
C7_Witness ==
    /\ pc = "mkdir"
    /\ cfg.chunkSize >= Len(source)
    /\ \E i \in DOMAIN Split(source) : Len(Split(source)[i]) > MaxLength
    /\ \E i \in DOMAIN ScanLines(written) :
          Len(ScanLines(written)[i]) = MaxLength

RunFailed == err # "nil" \/ scanErr

C10_AbortsAtFirstFailure ==
    [][RunFailed =>
          /\ target' = target
          /\ wbuf' = wbuf
          /\ \A n \in DOMAIN chunks' : n \in DOMAIN chunks /\ chunks'[n] = chunks[n]
          /\ (err # "nil" => err' = err)
          /\ (scanErr /\ pc' = "returned" => err' = "read_intermediate")]_vars

\* C11 as stated: a generation run that fails leaves the output file as it
\* was before the run started.
C11_FailedRunKeepsOutput ==
    (pc = "returned" /\ err # "nil") => target = targetBefore

\* C12 as stated: with a flush threshold of 1 every flush batch holds
\* exactly one key.
C12_ThresholdOneSingleKey ==
    cfg.flushThreshold = 1 =>
        \A b \in DOMAIN batches : Len(batches[b]) = 1

\* C12 amended: with a flush threshold of 1 a flush is forced only once
\* the table holds two keys, so every batch before the last holds exactly
\* two keys, larger count first, and only the flush after the last chunk
\* file can hold a single key.
C12_ThresholdOneTwoKeys ==
    cfg.flushThreshold = 1 =>
        \A b \in DOMAIN batches :
            /\ Len(batches[b]) \in {1, 2}
            /\ b < Len(batches) => Len(batches[b]) = 2
            /\ Len(batches[b]) = 1 =>
                  pc \in {"merge_wflush", "cleanup", "returned"}
            /\ Len(batches[b]) = 2 =>
                  batches[b][1].count >= batches[b][2].count

\* C12 witness: a run with threshold 1 has succeeded after a forced flush
\* of two keys in which the key written first sorts after the other one,
\* so the output is not in the order of a sorted chunk file.
C12_Witness ==
    /\ cfg.flushThreshold = 1
    /\ RunSucceeded
    /\ \E b \in DOMAIN batches :
          /\ Len(batches[b]) = 2
          /\ b < Len(batches)
          /\ StrLess(batches[b][2].str, batches[b][1].str)

\* Index of the first line of a file that equals line, 0 when none does.
FirstLineIndex(content, line) ==
    IF \E i \in DOMAIN ScanLines(content) : ScanLines(content)[i] = line
    THEN CHOOSE i \in DOMAIN ScanLines(content) :
            /\ ScanLines(content)[i] = line
            /\ \A j \in 1..(i - 1) : ScanLines(content)[j] # line
    ELSE 0

\* The example source of three lines.
ExampleSource == "password123\npassword123\nhunter2\n"

\* The example run: the whole source fits the read buffer, the run has
\* succeeded and its only flush was the final one.
ExampleRunDone ==
    /\ source = ExampleSource
    /\ cfg.chunkSize >= Len(source)
    /\ RunSucceeded
    /\ Len(batches) = 1

\* C13: for the source password123, password123, hunter2 and a run whose
\* only flush is the final one, the output holds password (counted twice)
\* and, after it, hunter (counted once).
C13_PasswordBeforeHunter ==
    ExampleRunDone =>
        /\ FirstLineIndex(target, "password") > 0
        /\ FirstLineIndex(target, "hunter") > FirstLineIndex(target, "password")
        /\ \E i, j \in DOMAIN batches[1] :
              /\ batches[1][i] = [str |-> "password", count |-> 2]
              /\ batches[1][j] = [str |-> "hunter", count |-> 1]

\* C13 witness: the example run has finished with that output.
C13_Witness ==
    /\ ExampleRunDone
    /\ target = "password\nhunter\n"

\* The call of the transform on the example phrase with range [1,2].
ExamplePhraseDone ==
    /\ Returned("TransformChunk")
    /\ fnCall.text = "correct horse battery"
    /\ fnCall.a = 1
    /\ fnCall.b = 2

\* C14 as stated: the candidates of the line "correct horse battery" with
\* range [1,2] are correct, horse, battery, correcthorse and horsebattery.
C14_LowerCaseMerged ==
    ExamplePhraseDone =>
        Range(fnResult[1]) =
            {"correct", "horse", "battery", "correcthorse", "horsebattery"}

\* C14 amended: the candidates are the three words and the two 2-grams
\* merged with the first letter of each word in upper case, in this order.
C14_TitleCaseMerged ==
    ExamplePhraseDone =>
        fnResult[1] =
            <<"correct", "horse", "battery", "CorrectHorse", "HorseBattery">>

\* C14 witness: the transform of the example phrase has returned five
\* candidates.
C14_Witness == ExamplePhraseDone /\ Len(fnResult[1]) = 5

\* Number of contiguous spans of k words in a line of n words.
SpanCount(n, k) == IF k <= n THEN n - k + 1 ELSE 0

\* Number of spans of the sizes a..(k - 1).
RECURSIVE SpansBefore(_, _, _)
SpansBefore(n, a, k) ==
    IF k <= a THEN 0 ELSE SpansBefore(n, a, k - 1) + SpanCount(n, k - 1)

\* The words j..(j + k - 1) joined by single spaces, punctuation removed.
SpanText(words, j, k) ==
    RemoveBytes(Join(SubSeq(words, j, j + k - 1), " "), {".", ",", ";"})

\* C15 as stated: n-gram expansion emits, for each k of the range, one
\* n-gram per contiguous span of k words, which is the words joined by
\* single spaces with '.', ',' and ';' removed and has no leading or
\* trailing whitespace.
C15_NGramsAreTrimmedSpans ==
    Returned("GenerateNGrams") =>
        LET words == Fields(fnCall.text)
            n == Len(words)
            out == fnResult[1]
        IN /\ Len(out) = SpansBefore(n, fnCall.a, fnCall.b + 1)
           /\ \A k \in fnCall.a..fnCall.b : \A j \in 1..SpanCount(n, k) :
                 LET g == out[SpansBefore(n, fnCall.a, k) + j]
                 IN /\ g = SpanText(words, j, k)
                    /\ g = TrimSpace(g)

\* A window holds a vowel and at most one character that is no letter.
WindowQualifies(rs) ==
    /\ \E j \in 1..Len(rs) : IsVowel(rs[j])
    /\ Cardinality({j \in 1..Len(rs) : ~IsLetter(rs[j])}) <= 1

HasEmailAddress(s) ==
    \E a \in 2..Len(s) : \E q \in (a + 2)..(Len(s) - 2) :
        /\ At(s, a) = "@"
        /\ IsAlnumByte(At(s, a - 1)) \/ At(s, a - 1) \in {".", "_", "%", "+", "-"}
        /\ \A k \in (a + 1)..(q - 1) :
              IsAlnumByte(At(s, k)) \/ At(s, k) \in {".", "-"}
        /\ At(s, q) = "."
        /\ \A k \in (q + 1)..(q + 2) :
              Ord(At(s, k)) \in (65..90) \cup (97..122)

\* C17 as stated: passes_denylist(s) is false for every s that holds
\* http:// or https://, an email address, one of the listed domain
\* substrings, only digits, or at most 5 characters.
C17_DenylistRejects ==
    Returned("IsQualityCandidateCheck") =>
        LET s == fnCall.text IN
        (\/ Contains(s, "http://")
         \/ Contains(s, "https://")
         \/ HasEmailAddress(s)
         \/ \E d \in {"xiaonei", "zomato", "fbobh", "fccdbbcdaa", "yahoo",
                      "linkedin", "gmail", "yandex", "hotmail"} : Contains(s, d)
         \/ s # "" /\ \A i \in 1..Len(s) : IsDigitByte(At(s, i))
         \/ Len(s) <= 5)
            => fnResult[1] = FALSE

MatchingLines(content, sub) ==
    SelectSeq(ScanLines(content),
              LAMBDA line : sub = "" \/ Contains(ToLower(line), ToLower(sub)))

\* C19 as stated: GetFirstNLines(path, n, substring) returns at most n
\* lines for every n >= 0, none when n is 0, and they are the first n
\* lines of the file that contain the substring, in file order.
C19_FirstNMatchingLines ==
    Returned("GetFirstNLines") =>
        LET all == MatchingLines(fnCall.text, fnCall.sub)
            want == IF Len(all) < fnCall.a THEN Len(all) ELSE fnCall.a
        IN /\ Len(fnResult[1]) <= fnCall.a
           /\ fnResult[1] = SubSeq(all, 1, want)

\* C20 as stated: no upload is lost to the scheduler; whenever the updater
\* waits for a tick and the source holds a completed append that no run
\* has started after, LastUploaded is later than LastUpdated, so that the
\* next tick starts a run.
C20_NoUploadLost ==
    (pc = "idle" /\ unprocessed) => LastUploaded > LastUpdated

\* C21 as stated: when the transform stage has read the whole source, the
\* lines it wrote are, as a multiset, the lines the transformation gives
\* on the whole source at once, whatever the byte-chunk size.
C21_ChunkSizeIndependent ==
    (pc = "mkdir" /\ err = "nil") =>
        BagOfSeq(ScanLines(written)) = BagOfSeq(ScanLines(TransformChunk(source)))

\* C22 as stated: the lines a download returns are the first matching
\* lines of the complete output of the previous run or of the complete
\* output of the current run; checked when the current run has succeeded,
\* so that its complete output is the output file.
C22_DownloadSeesCompleteOutput ==
    (RunSucceeded /\ Returned("DownloadHandler") /\ fnResult[1].status = 200) =>
        \/ fnResult[1].lines = GetFirstNLines(targetBefore, fnCall.a, fnCall.sub)
        \/ fnResult[1].lines = GetFirstNLines(target, fnCall.a, fnCall.sub)

\* The lines the aggregate stage reads, in the order it reads them.
MergeInput == LinesOfFiles(chunks, dirList)

\* The lines of the window of batch b: those read since the flush before.
WindowOf(b) ==
    LET start == SumCounts(Flatten(SubSeq(batches, 1, b - 1)))
    IN SubSeq(MergeInput, start + 1, start + SumCounts(batches[b]))

\* Number of elements of seq that equal x.
Occurrences(seq, x) == Cardinality({i \in DOMAIN seq : seq[i] = x})

\* Number of flush batches that hold key k.
BatchesWith(k) ==
    Cardinality({b \in DOMAIN batches :
                    \E i \in DOMAIN batches[b] : batches[b][i].str = k})

\* C23: while the aggregate stage runs, every flush batch holds each
\* distinct line of its window exactly once with its number of occurrences
\* in the window, and the bytes sent to the output hold a token once per
\* batch that holds it.
C23_OncePerWindow ==
    pc \in {"merge_scan", "merge_check", "merge_wflush"} =>
        /\ \A b \in DOMAIN batches :
              LET window == WindowOf(b) IN
              /\ \A i, j \in DOMAIN batches[b] :
                    i # j => batches[b][i].str # batches[b][j].str
              /\ {batches[b][i].str : i \in DOMAIN batches[b]} = Range(window)
              /\ \A i \in DOMAIN batches[b] :
                    batches[b][i].count = Occurrences(window, batches[b][i].str)
        /\ LET out == ScanLines(target \o wbuf) IN
           \A k \in Range(out) \cup Range(MergeInput) :
              Occurrences(out, k) = BatchesWith(k)

\* C23 witness: after the last flush, a token read in two windows is in
\* two batches and twice in the bytes sent to the output.
C23_Witness ==
    /\ pc = "merge_wflush"
    /\ err = "nil"
    /\ \E k \in Range(MergeInput) :
          /\ BatchesWith(k) = 2
          /\ Occurrences(ScanLines(target \o wbuf), k) = 2

\* C24 as stated: when CreateWizardWordlist has returned an error, the
\* updater does not record the wordlist as updated, so that the next tick
\* starts another run.
C24_FailedRunIsRetried ==
    [][(pc = "unlocked" /\ err # "nil") => LastUpdated' = LastUpdated]_vars

\* C25: whoever holds the lock releases it, on every path, and a goroutine
\* that waits for the lock gets it and runs to its end: a waiting handler
\* finishes and a waiting generation run returns to the ticker loop.
C25_LockAlwaysReleased ==
    /\ (Mu # << >>) ~> (Mu = << >>)
    /\ \A h \in Handlers :
          (handlers[h].pc = "lock") ~> (handlers[h].pc = "finished")
    /\ (pc = "lock") ~> (pc = "idle")

\* C25 witness: a handler has answered with an error, a generation run has
\* failed, both are over and the lock is free.
C25_Witness ==
    /\ Mu = << >>
    /\ pc = "idle"
    /\ err # "nil"
    /\ \E h \in Handlers :
          handlers[h].pc = "finished" /\ handlers[h].status = 500

\* A step of the aggregate stage that keeps the order of reading: see C26.
MergeStepInOrder ==
    pc \in {"merge_scan", "merge_check"} =>
        /\ mergeIdx' # mergeIdx =>
              /\ mergeRest = << >>
              /\ mergeIdx' = mergeIdx + 1
              /\ entries' = entries
              /\ mergeRest' = IF mergeIdx' <= Len(dirList)
                              THEN ScanLines(chunks[dirList[mergeIdx']])
                              ELSE << >>
        /\ consumed' # consumed =>
              /\ consumed' = consumed + 1
              /\ mergeIdx' = mergeIdx
              /\ Head(mergeRest) = MergeInput[consumed']
              /\ entries' = Increment(entries, MergeInput[consumed'])
        /\ ~(DOMAIN entries \subseteq DOMAIN entries') =>
              /\ Len(batches') = Len(batches) + 1
              /\ entries' = EmptyMap

\* C26: in the aggregate stage the scanner moves to the next chunk file
\* only when the current one is read to its end, and then starts at the
\* first line of the next with the table as it was; each line read is the
\* next line of the chunk files taken in directory order; the table loses
\* a key only by a flush, which empties it.
C26_OneFileAtATime == [][MergeStepInOrder]_vars

\* C26 witness: the second chunk file is being read, no flush has happened
\* and the table still holds what was counted in the first.
C26_Witness ==
    /\ pc = "merge_scan"
    /\ mergeIdx = 2
    /\ mergeRest # << >>
    /\ batches = << >>
    /\ Cardinality(DOMAIN entries) >= 1
    /\ consumed = Len(ScanLines(chunks[dirList[1]]))

\* The aggregate stage has written the whole output file and the chunk
\* files are still there.
OutputComplete == pc = "cleanup" /\ err = "nil"

\* C27: when the distinct lines of the intermediate data never exceed
\* the flush threshold, the output file holds each distinct line exactly
\* once, a line with more occurrences before a line with fewer, whatever
\* the batch size of the scatter-sort stage and the number of chunk files.
C27_SingleFlushRanksByTotal ==
    LET input == ScanLines(intermediate) IN
    (OutputComplete /\ Cardinality(Range(input)) <= cfg.flushThreshold) =>
        LET out == ScanLines(target) IN
        /\ Range(out) = Range(input)
        /\ Len(out) = Cardinality(Range(input))
        /\ \A i, j \in DOMAIN out :
              i < j => Occurrences(input, out[i]) >= Occurrences(input, out[j])

\* C27 witness: a line whose occurrences are spread over two chunk files
\* is written once, before a line that occurs less often.
C27_Witness ==
    /\ OutputComplete
    /\ Cardinality(Range(ScanLines(intermediate))) <= cfg.flushThreshold
    /\ Len(dirList) >= 2
    /\ \E k \in Range(ScanLines(intermediate)) :
          /\ \E a, b \in DOMAIN dirList :
                /\ a # b
                /\ k \in Range(ScanLines(chunks[dirList[a]]))
                /\ k \in Range(ScanLines(chunks[dirList[b]]))
          /\ ScanLines(target)[1] = k
          /\ Len(ScanLines(target)) >= 2
          /\ Occurrences(ScanLines(intermediate), k)
                > Occurrences(ScanLines(intermediate),
                              ScanLines(target)[Len(ScanLines(target))])

KeyIsAltered(key, count) ==
    \/ key # "" /\ (IsSpaceByte(At(key, 1)) \/ IsSpaceByte(At(key, Len(key))))
    \/ HasSuffix(key, " " \o Itoa(count))

AcceptedLines == UNION {Range(TransformedLines(Split(b))) : b \in ReadBuffers}

\* C29 as stated: an append never merges records; every line of the source
\* file is one accepted line, stored on a line of its own.
C29_NoMergedRecords ==
    \A i \in DOMAIN ScanLines(source) : ScanLines(source)[i] \in AcceptedLines


(***************************************************************************)
(* C30: error responses and the source file                                *)
(***************************************************************************)

\* Handler h has answered with an error and still holds the lock.
EndsWithError(h) == handlers[h].pc = "unlock" /\ handlers[h].status # 200

\* C30 as stated: an upload or import that ends with an error response
\* leaves the source file's content exactly as it was before the request.
C30_ErrorLeavesSourceUnchanged ==
    \A h \in Handlers : EndsWithError(h) => source = handlers[h].before


(***************************************************************************)
(* C31: chunk-file handles                                                 *)
(***************************************************************************)

\* The chunk files the aggregate stage has not yet fully consumed.
NotYetConsumed == {dirList[i] : i \in mergeIdx..Len(dirList)}

\* C31 as stated: while the aggregate stage reads, the open chunk-file
\* handles are exactly those of the files not yet fully consumed, and no
\* handle is open once the stage has returned.
C31_HandlesClosedPromptly ==
    /\ pc \in {"merge_scan", "merge_check"} => handles = NotYetConsumed
    /\ pc \in {"merge_wflush", "cleanup", "returned"} => handles = {}


(***************************************************************************)
(* C32: normalization of a line                                            *)
(***************************************************************************)

\* The line of a call of PrepareStringForTransformations.
PreparedLine == FromBytes(fnCall.bytes)

\* No letter lies between the last space before position i and i.
FirstLetterAfterSpace(s, i) ==
    \A j \in 1..(i - 1) :
        IsCasedByte(At(s, j)) => \E k \in (j + 1)..(i - 1) : At(s, k) = " "

\* A word ends at position k: at a character that is no letter, digit,
\* "_" or mark of punctuation inside a word, and at a mark ' . : that is
\* followed by another one.
EndsWord(s, k) ==
    \/ IsBreakByte(At(s, k))
    \/ k < Len(s) /\ IsMidByte(At(s, k)) /\ IsMidByte(At(s, k + 1))

\* No letter lies between the last end of a word before position i and i.
FirstLetterOfWord(s, i) ==
    \A j \in 1..(i - 1) :
        IsCasedByte(At(s, j)) => \E k \in (j + 1)..(i - 1) : EndsWord(s, k)

\* The line s without its spaces, the letters at the positions of starts
\* in upper case.
RECURSIVE Capitalised(_, _, _)
Capitalised(s, i, starts) ==
    IF i > Len(s) THEN ""
    ELSE (IF At(s, i) = " " THEN ""
          ELSE IF i \in starts THEN UpperByte(At(s, i)) ELSE At(s, i))
           \o Capitalised(s, i + 1, starts)

ChunksWritten ==
    /\ pc \in {"scatter_scan", "scatter_tail", "merge_readdir", "merge_open",
               "merge_create", "merge_scan", "merge_check", "merge_wflush",
               "cleanup"}
    /\ err # "write_chunk"

\* Number of chunk files in the temporary directory.
NumChunks == Cardinality(DOMAIN chunks)

\* C33: in the scatter-sort stage the batch in memory never holds more
\* lines than the maximum line count; of the chunk files written in full,
\* each holds exactly that many lines except possibly the last, which
\* holds between 1 and that many; an empty intermediate file gives no
\* chunk file and an empty output.
C33_ChunkFilesOfLineCount ==
    /\ pc \in {"scatter_scan", "scatter_tail"} =>
          Len(lines) <= cfg.chunkLineCount
    /\ ChunksWritten =>
          /\ DOMAIN chunks = {ChunkName(i) : i \in 0..(NumChunks - 1)}
          /\ \A i \in 0..(NumChunks - 2) :
                NumLines(chunks[ChunkName(i)]) = cfg.chunkLineCount
          /\ NumChunks > 0 =>
                NumLines(chunks[ChunkName(NumChunks - 1)])
                    \in 1..cfg.chunkLineCount
          /\ pc = "scatter_scan" =>
                \A i \in 0..(NumChunks - 1) :
                   NumLines(chunks[ChunkName(i)]) = cfg.chunkLineCount
    /\ (ChunksWritten /\ intermediate = "" /\ pc # "scatter_scan") =>
          chunks = EmptyMap
    /\ (RunSucceeded /\ intermediate = "") => target = ""

\* C33 witness: the stage has ended with two full chunk files and a last
\* one that holds fewer lines than the maximum.
C33_Witness ==
    /\ pc = "merge_readdir"
    /\ cfg.chunkLineCount = 2
    /\ NumChunks = 3
    /\ NumLines(chunks[ChunkName(2)]) = 1


(***************************************************************************)
(* C34: order inside the chunk files                                       *)
(***************************************************************************)

\* The lines ls are in non-decreasing byte order.
NonDecreasing(ls) ==
    \A i \in 1..(Len(ls) - 1) : ~StrLess(ls[i + 1], ls[i])

\* C34: every chunk file is sorted in non-decreasing byte order, so equal
\* lines of one batch are adjacent in it.
C34_ChunkFilesSorted ==
    \A name \in DOMAIN chunks :
        LET ls == ScanLines(chunks[name]) IN
        /\ NonDecreasing(ls)
        /\ \A i, j \in DOMAIN ls :
              (i < j /\ ls[i] = ls[j]) => \A k \in i..j : ls[k] = ls[i]

\* C34 witness: two sorted chunk files of two distinct lines each, with
\* no order between them: a line of the first file is greater than a
\* line of the second.
C34_Witness ==
    /\ pc = "merge_readdir"
    /\ NumChunks >= 2
    /\ LET first == ScanLines(chunks[ChunkName(0)])
           second == ScanLines(chunks[ChunkName(1)])
       IN /\ Len(first) = 2 /\ StrLess(first[1], first[2])
          /\ Len(second) = 2 /\ StrLess(second[1], second[2])
          /\ StrLess(second[1], first[2])

=============================================================================
